---- MODULE Spec2Model ----
(***************************************************************************)
(* Model of DeadlockDetector (src/ipc_debugger/deadlock_detector.py): the  *)
(* allocation tracker, the wait-for graph builder / cycle detector and the *)
(* bounded event log.  Every public method that takes self._lock is one    *)
(* atomic action; Python dicts that are iterated keep their insertion      *)
(* order (process_ids), lists are sequences.                               *)
(***************************************************************************)
EXTENDS Integers, Sequences, FiniteSets, TLC

VARIABLES resources, processes, process_ids, log_queue, now, ret,
          _running, _monitor_threads, _lock, callers, maxsize

vars == <<resources, processes, process_ids, log_queue, now, ret,
         _running, _monitor_threads, _lock, callers, maxsize>>

(* _lock: the thread inside `with self._lock`, None when the lock is free;
   callers: where each caller thread stands inside a call that the model takes
   in steps; maxsize: the capacity of self.log_queue. *)

(* resources, processes: the two dicts of the tracker; process_ids: the
   insertion order of the processes dict; log_queue: self.log_queue; now: the
   reading of time.time(); ret: what the last call returned (val, and for
   detect_deadlocks the list deadlocks), with the history field call: the name
   and arguments of that call, which only the traced specification SpecCalls
   records (call stays << >> when the initial state has it << >>). *)

(* ---- bounds of the model ---- *)
MaxInstances == 2
MaxThreads == 2
LogMaxSize == 1
LogRaceMaxSize == 2
MaxTime == 2
Callers == {"t1", "t2"}
MaxDrain == 2
MonitorIds == <<"monitor_1", "monitor_2", "monitor_3">>
MaxSim == 1
MaxSimulations == 1
SimProcessIds == <<"sim_process_0", "sim_process_1", "sim_process_2">>
SimResourceIds == <<"sim_resource_0", "sim_resource_1", "sim_resource_2">>
SoleCaller == {"t1"}
Messages == {"m1", "m2", "m3"}
RaceMessages == {"m1"}
Procs == {"p1", "p2"}
Res == {"r1", "r2"}
Counts == 1..MaxInstances
QueueProcs == {"p1", "p2", "p3"}
QueueRes == {"r1"}
ShareProcs == {"p1", "p2"}
ShareRes == {"r1"}
AnyProcs == {"p1", "p2"}
AnyRes == {"r1"}
SoleProc == {"p1"}
DetectProcs == {"p1", "p2", "p3"}
DetectResources == {<<"r1", MaxInstances>>, <<"r2", 1>>}

None == "None"

(* ---- dict and list helpers ---- *)
EmptyMap == [x \in {} |-> 0]
MapSet(f, k, v) == [x \in (DOMAIN f) \cup {k} |-> IF x = k THEN v ELSE f[x]]
MapDel(f, k) == [x \in (DOMAIN f) \ {k} |-> f[x]]
(* A lookup that never finds the key. *)
MapGet_Missing(f, k, d) == d

MapGet(f, k, d) == IF k \in DOMAIN f THEN f[k] ELSE d
Contains(s, e) == \E i \in 1..Len(s) : s[i] = e
IndexOf(s, e) == CHOOSE i \in 1..Len(s) : s[i] = e /\ \A j \in 1..(i - 1) : s[j] # e
ListRemove(s, e) ==
    IF Contains(s, e)
    THEN LET i == IndexOf(s, e) IN SubSeq(s, 1, i - 1) \o SubSeq(s, i + 1, Len(s))
    ELSE s

(* ---- event log ---- *)
Event(action, process_id, resource_id) ==
    [action |-> action, process_id |-> process_id, resource_id |-> resource_id]

_log_event(q, event) ==
    IF Len(q) < maxsize THEN Append(q, event) ELSE Append(Tail(q), event)

(* ---- the return value of the last call ---- *)
Traced(c) == IF ret.call = << >> THEN << >> ELSE c

Ret(c, val) == [call |-> Traced(c), val |-> val, deadlocks |-> << >>]

(* ---- derived resource state ---- *)
StateOf(resource) ==
    IF resource.available_instances = resource.total_instances THEN "free"
    ELSE IF resource.available_instances = 0 THEN "fully_allocated"
    ELSE "partially_allocated"

(* A caller thread between calls.  op is the method it called last, pc its
   next step, event the event it is logging; resources, processes and
   process_ids are what it has read of the two maps; before is a history
   field, the log as the call found it.  sim_processes and sim_resources are
   what the loops of simulate_deadlock have still to register, simulations the
   number of _simulate threads the caller has started that are still running,
   logs the list get_logs is filling.  A monitor thread has such a record
   too, for its snapshot (resources, processes, process_ids) and the
   deadlocks it found in it. *)
IdleCaller ==
    [op |-> None, pc |-> "idle", event |-> Event(None, None, None),
     resources |-> EmptyMap, processes |-> EmptyMap, process_ids |-> << >>,
     before |-> << >>,
     sim_processes |-> << >>, sim_resources |-> << >>, simulations |-> 0,
     logs |-> << >>, deadlocks |-> << >>]

InitSized(c, n) ==
    /\ _lock = None
    /\ callers = [t \in Callers \cup {MonitorIds[i] : i \in 1..Len(MonitorIds)}
                     |-> IdleCaller]
    /\ maxsize = n
    /\ resources = EmptyMap
    /\ processes = EmptyMap
    /\ process_ids = << >>
    /\ log_queue = << >>
    /\ now = 0
    /\ _running = FALSE
    /\ _monitor_threads = << >>
    /\ ret = [call |-> c, val |-> "None", deadlocks |-> << >>]

InitWith(c) == InitSized(c, LogMaxSize)

Init == InitWith(<< >>)

(* The same initial state, with the history of calls switched on. *)
InitCalls == InitWith(<<"__init__">>)

(* register_resource without the check for an id that is already there. *)
register_resource_Overwrite(resource_id, instances) ==
    IF instances <= 0
    THEN /\ ret' = Ret(<<"register_resource", resource_id, instances>>, "ValueError")
         /\ UNCHANGED <<resources, processes, process_ids, log_queue, now, _running, _monitor_threads, _lock, callers, maxsize>>
    ELSE /\ resources' = MapSet(resources, resource_id,
                [total_instances |-> instances,
                 available_instances |-> instances,
                 allocations |-> EmptyMap,
                 waiters |-> << >>,
                 waiter_timestamps |-> EmptyMap,
                 waiting_for |-> EmptyMap,
                 state |-> "free"])
         /\ log_queue' = _log_event(log_queue, Event("resource_registered", None, resource_id))
         /\ ret' = Ret(<<"register_resource", resource_id, instances>>, "True")
         /\ UNCHANGED <<processes, process_ids, now, _running, _monitor_threads, _lock, callers, maxsize>>

register_resource(resource_id, instances) ==
    IF instances <= 0
    THEN /\ ret' = Ret(<<"register_resource", resource_id, instances>>, "ValueError")
         /\ UNCHANGED <<resources, processes, process_ids, log_queue, now, _running, _monitor_threads, _lock, callers, maxsize>>
    ELSE IF resource_id \in DOMAIN resources
    THEN /\ ret' = Ret(<<"register_resource", resource_id, instances>>, "False")
         /\ UNCHANGED <<resources, processes, process_ids, log_queue, now, _running, _monitor_threads, _lock, callers, maxsize>>
    ELSE /\ resources' = MapSet(resources, resource_id,
                [total_instances |-> instances,
                 available_instances |-> instances,
                 allocations |-> EmptyMap,
                 waiters |-> << >>,
                 waiter_timestamps |-> EmptyMap,
                 waiting_for |-> EmptyMap,
                 state |-> "free"])
         /\ log_queue' = _log_event(log_queue, Event("resource_registered", None, resource_id))
         /\ ret' = Ret(<<"register_resource", resource_id, instances>>, "True")
         /\ UNCHANGED <<processes, process_ids, now, _running, _monitor_threads, _lock, callers, maxsize>>

register_process(process_id) ==
    IF process_id \in DOMAIN processes
    THEN /\ ret' = Ret(<<"register_process", process_id>>, "False")
         /\ UNCHANGED <<resources, processes, process_ids, log_queue, now, _running, _monitor_threads, _lock, callers, maxsize>>
    ELSE /\ processes' = MapSet(processes, process_id, [owns |-> << >>, waiting_for |-> None])
         /\ process_ids' = Append(process_ids, process_id)
         /\ log_queue' = _log_event(log_queue, Event("process_registered", process_id, None))
         /\ ret' = Ret(<<"register_process", process_id>>, "True")
         /\ UNCHANGED <<resources, now, _running, _monitor_threads, _lock, callers, maxsize>>

(* First waiter, in list order, that the promotion loop of release_resource and
   unregister_process grants: registered, still waiting for this resource, and
   asking for no more than what is available.  0 when the loop grants nobody. *)
Eligible(resource, procs, resource_id, waiter_id) ==
    /\ waiter_id \in DOMAIN procs
    /\ procs[waiter_id].waiting_for = resource_id
    /\ resource.available_instances >= MapGet(resource.waiting_for, waiter_id, 1)

FirstEligible_Newest(resource, procs, resource_id) ==
    LET idx == {i \in 1..Len(resource.waiters) :
                    Eligible(resource, procs, resource_id, resource.waiters[i])}
    IN IF idx = {} THEN 0 ELSE CHOOSE i \in idx : \A j \in idx : i >= j

(* A promotion loop that looks at the head of the queue only. *)
FirstEligible_HeadOnly(resource, procs, resource_id) ==
    IF /\ resource.waiters # << >>
       /\ Eligible(resource, procs, resource_id, resource.waiters[1])
    THEN 1 ELSE 0

FirstEligible(resource, procs, resource_id) ==
    LET idx == {i \in 1..Len(resource.waiters) :
                    Eligible(resource, procs, resource_id, resource.waiters[i])}
    IN IF idx = {} THEN 0 ELSE CHOOSE i \in idx : \A j \in idx : i <= j

(* Mutations of the promotion, for the claims that depend on it. *)
GrantWaiter_KeepsRequest(resource, waiter_id) ==
    LET instances_needed == MapGet(resource.waiting_for, waiter_id, 1)
    IN [resource EXCEPT
            !.waiters = ListRemove(@, waiter_id),
            !.waiter_timestamps = MapDel(@, waiter_id),
            !.allocations = MapSet(@, waiter_id, instances_needed),
            !.available_instances = @ - instances_needed]

(* A promotion that takes the granted instances out of the total. *)
GrantWaiter_DebitsTotal(resource, waiter_id) ==
    LET instances_needed == MapGet(resource.waiting_for, waiter_id, 1)
    IN [resource EXCEPT
            !.waiters = ListRemove(@, waiter_id),
            !.waiter_timestamps = MapDel(@, waiter_id),
            !.waiting_for = MapDel(@, waiter_id),
            !.allocations = MapSet(@, waiter_id, instances_needed),
            !.available_instances = @ - instances_needed,
            !.total_instances = @ - instances_needed]

GrantWaiter_NoDebit(resource, waiter_id) ==
    LET instances_needed == MapGet(resource.waiting_for, waiter_id, 1)
    IN [resource EXCEPT
            !.waiters = ListRemove(@, waiter_id),
            !.waiter_timestamps = MapDel(@, waiter_id),
            !.waiting_for = MapDel(@, waiter_id),
            !.allocations = MapSet(@, waiter_id, instances_needed)]

(* The body of the promotion: the waiter leaves waiters, waiter_timestamps and
   the requested-amount map, its allocation is SET to the requested amount. *)
GrantWaiter(resource, waiter_id) ==
    LET instances_needed == MapGet(resource.waiting_for, waiter_id, 1)
    IN [resource EXCEPT
            !.waiters = ListRemove(@, waiter_id),
            !.waiter_timestamps = MapDel(@, waiter_id),
            !.waiting_for = MapDel(@, waiter_id),
            !.allocations = MapSet(@, waiter_id, instances_needed),
            !.available_instances = @ - instances_needed]

WakeProcess(process, resource_id) ==
    [process EXCEPT
        !.owns = IF Contains(@, resource_id) THEN @ ELSE Append(@, resource_id),
        !.waiting_for = None]

(* A promotion loop without the break: it goes round a second time. *)
Promote_Twice(st, resource_id, action, logged_process) ==
    LET once(s) ==
            LET resource == s.resources[resource_id]
                i == FirstEligible(resource, s.processes, resource_id)
            IN IF i = 0 THEN s
               ELSE LET waiter_id == resource.waiters[i]
                    IN [resources |-> [s.resources EXCEPT
                                          ![resource_id] = GrantWaiter(resource, waiter_id)],
                        processes |-> [s.processes EXCEPT
                                          ![waiter_id] = WakeProcess(@, resource_id)],
                        log_queue |-> _log_event(s.log_queue,
                                          Event(action, waiter_id, resource_id))]
    IN once(once(st))

(* wait_time of release_resource: granted is the resource after the promotion
   has taken the waiter out of waiters, waiter_timestamps and the
   requested-amount map; the code looks the timestamp up after that. *)
WaitTime(granted, waiter_id) ==
    IF waiter_id \in DOMAIN granted.waiter_timestamps
    THEN now - granted.waiter_timestamps[waiter_id]
    ELSE 0

(* The event of a promotion: release_resource reports a wait_time,
   unregister_process does not. *)
PromotionEvent(action, waiter_id, resource_id, granted) ==
    IF action = "resource_acquired_after_wait"
    THEN [action |-> action, process_id |-> waiter_id, resource_id |-> resource_id,
          wait_time |-> WaitTime(granted, waiter_id)]
    ELSE Event(action, waiter_id, resource_id)

(* Promotion loop on the tracker state st = [resources, processes, log_queue]. *)
Promote(st, resource_id, action, logged_process) ==
    LET resource == st.resources[resource_id]
        i == FirstEligible(resource, st.processes, resource_id)
    IN IF i = 0 THEN st
       ELSE LET waiter_id == resource.waiters[i]
                granted == GrantWaiter(resource, waiter_id)
            IN [resources |-> [st.resources EXCEPT ![resource_id] = granted],
                processes |-> [st.processes EXCEPT
                                  ![waiter_id] = WakeProcess(@, resource_id)],
                log_queue |-> _log_event(st.log_queue,
                                  PromotionEvent(action, waiter_id, resource_id,
                                                 granted))]

AlreadyWaiting_Never(process) == FALSE

(* "Process can't request a resource if it's already waiting for something". *)
AlreadyWaiting(process) == process.waiting_for # None

request_resource(process_id, resource_id, instances) ==
    IF instances <= 0
    THEN /\ ret' = Ret(<<"request_resource", process_id, resource_id, instances>>, "ValueError")
         /\ UNCHANGED <<resources, processes, process_ids, log_queue, now, _running, _monitor_threads, _lock, callers, maxsize>>
    ELSE IF process_id \notin DOMAIN processes \/ resource_id \notin DOMAIN resources
    THEN /\ ret' = Ret(<<"request_resource", process_id, resource_id, instances>>, "False")
         /\ UNCHANGED <<resources, processes, process_ids, log_queue, now, _running, _monitor_threads, _lock, callers, maxsize>>
    ELSE IF AlreadyWaiting(processes[process_id])
    THEN /\ ret' = Ret(<<"request_resource", process_id, resource_id, instances>>, "False")
         /\ UNCHANGED <<resources, processes, process_ids, log_queue, now, _running, _monitor_threads, _lock, callers, maxsize>>
    ELSE LET resource == resources[resource_id]
             process == processes[process_id]
         IN IF resource.available_instances >= instances
            THEN LET granted == [resource EXCEPT
                        !.allocations = MapSet(@, process_id, MapGet(@, process_id, 0) + instances),
                        !.available_instances = @ - instances]
                 IN /\ processes' = [processes EXCEPT ![process_id].owns =
                            IF Contains(@, resource_id) THEN @ ELSE Append(@, resource_id)]
                    /\ resources' = [resources EXCEPT ![resource_id] =
                            [granted EXCEPT !.state =
                                IF granted.available_instances = 0
                                THEN "fully_allocated" ELSE "partially_allocated"]]
                    /\ log_queue' = _log_event(log_queue,
                                        Event("resource_acquired", process_id, resource_id))
                    /\ ret' = Ret(<<"request_resource", process_id, resource_id, instances>>, "True")
                    /\ UNCHANGED <<process_ids, now, _running, _monitor_threads, _lock, callers, maxsize>>
            ELSE /\ resources' = [resources EXCEPT ![resource_id] =
                        IF Contains(resource.waiters, process_id) THEN resource
                        ELSE [resource EXCEPT
                                !.waiters = Append(@, process_id),
                                !.waiter_timestamps = MapSet(@, process_id, now),
                                !.waiting_for = MapSet(@, process_id, instances)]]
                 /\ processes' = [processes EXCEPT ![process_id].waiting_for = resource_id]
                 /\ log_queue' = _log_event(log_queue,
                                     Event("resource_waiting", process_id, resource_id))
                 /\ ret' = Ret(<<"request_resource", process_id, resource_id, instances>>, "False")
                 /\ UNCHANGED <<process_ids, now, _running, _monitor_threads, _lock, callers, maxsize>>

(* A release that always gives back everything the process holds. *)
InstancesToRelease_All(instances, current_allocation) == current_allocation

(* `if instances is None or instances >= current_allocation` *)
InstancesToRelease(instances, current_allocation) ==
    IF instances = << >> THEN current_allocation
    ELSE IF instances[1] >= current_allocation THEN current_allocation
    ELSE instances[1]

(* instances is an optional integer, written as a list: << >> is None (release
   everything), <<n>> is the integer n.  The code does not validate it. *)
release_resource(process_id, resource_id, instances) ==
    IF process_id \notin DOMAIN processes \/ resource_id \notin DOMAIN resources
    THEN /\ ret' = Ret(<<"release_resource", process_id, resource_id, instances>>, "False")
         /\ UNCHANGED <<resources, processes, process_ids, log_queue, now, _running, _monitor_threads, _lock, callers, maxsize>>
    ELSE IF ~Contains(processes[process_id].owns, resource_id)
    THEN /\ ret' = Ret(<<"release_resource", process_id, resource_id, instances>>, "False")
         /\ UNCHANGED <<resources, processes, process_ids, log_queue, now, _running, _monitor_threads, _lock, callers, maxsize>>
    ELSE IF MapGet(resources[resource_id].allocations, process_id, 0) = 0
    THEN /\ ret' = Ret(<<"release_resource", process_id, resource_id, instances>>, "False")
         /\ UNCHANGED <<resources, processes, process_ids, log_queue, now, _running, _monitor_threads, _lock, callers, maxsize>>
    ELSE LET resource == resources[resource_id]
             current_allocation == resource.allocations[process_id]
             instances_to_release == InstancesToRelease(instances, current_allocation)
             remaining == current_allocation - instances_to_release
             released == [resource EXCEPT
                 !.allocations = IF remaining = 0 THEN MapDel(@, process_id)
                                 ELSE MapSet(@, process_id, remaining),
                 !.available_instances = @ + instances_to_release]
             st1 == [resources |-> [resources EXCEPT ![resource_id] = released],
                     processes |-> IF remaining = 0
                                   THEN [processes EXCEPT ![process_id].owns =
                                            ListRemove(@, resource_id)]
                                   ELSE processes,
                     log_queue |-> _log_event(log_queue,
                                      Event("resource_released", process_id, resource_id))]
             st2 == Promote(st1, resource_id, "resource_acquired_after_wait", process_id)
         IN /\ resources' = [st2.resources EXCEPT ![resource_id].state =
                                StateOf(st2.resources[resource_id])]
            /\ processes' = st2.processes
            /\ log_queue' = st2.log_queue
            /\ ret' = Ret(<<"release_resource", process_id, resource_id, instances>>, "True")
            /\ UNCHANGED <<process_ids, now, _running, _monitor_threads, _lock, callers, maxsize>>

(* One pass of the loop of unregister_process over a resource the process
   owns.  The state field is recomputed BEFORE the promotion loop runs; the
   legacy branch (resource.get('owner') == process_id) cannot be taken: no
   resource ever has an 'owner' key, so the lookup yields None. *)
ForceRelease(st, process_id, resource_id) ==
    IF resource_id \notin DOMAIN st.resources THEN st
    ELSE IF process_id \notin DOMAIN st.resources[resource_id].allocations THEN st
    ELSE LET resource == st.resources[resource_id]
             instances_released == resource.allocations[process_id]
             freed == [resource EXCEPT
                          !.available_instances = @ + instances_released,
                          !.allocations = MapDel(@, process_id)]
             st1 == [st EXCEPT !.resources[resource_id] =
                        [freed EXCEPT !.state = StateOf(freed)]]
             st2 == Promote(st1, resource_id,
                            "resource_acquired_after_process_unregister", process_id)
         IN [st2 EXCEPT !.log_queue = _log_event(@, Event("resource_force_released",
                                                           process_id, resource_id))]

RECURSIVE ForceReleaseAll(_, _, _, _)
ForceReleaseAll(st, process_id, owned_resources, i) ==
    IF i > Len(owned_resources) THEN st
    ELSE ForceReleaseAll(ForceRelease(st, process_id, owned_resources[i]),
                         process_id, owned_resources, i + 1)

(* "Remove any entries where this process is waiting for a resource". *)
StripWaiter(resource, process_id) ==
    IF Contains(resource.waiters, process_id)
    THEN [resource EXCEPT
            !.waiters = ListRemove(@, process_id),
            !.waiter_timestamps = MapDel(@, process_id),
            !.waiting_for = MapDel(@, process_id)]
    ELSE resource

unregister_process(process_id) ==
    IF process_id \notin DOMAIN processes
    THEN /\ ret' = Ret(<<"unregister_process", process_id>>, "False")
         /\ UNCHANGED <<resources, processes, process_ids, log_queue, now, _running, _monitor_threads, _lock, callers, maxsize>>
    ELSE LET owned_resources == processes[process_id].owns
             st0 == [resources |-> resources, processes |-> processes,
                     log_queue |-> log_queue]
             st1 == ForceReleaseAll(st0, process_id, owned_resources, 1)
         IN /\ resources' = [r \in DOMAIN st1.resources |->
                                StripWaiter(st1.resources[r], process_id)]
            /\ processes' = MapDel(st1.processes, process_id)
            /\ process_ids' = ListRemove(process_ids, process_id)
            /\ log_queue' = _log_event(st1.log_queue,
                                Event("process_unregistered", process_id, None))
            /\ ret' = Ret(<<"unregister_process", process_id>>, "True")
            /\ UNCHANGED <<now, _running, _monitor_threads, _lock, callers, maxsize>>

(* The lower-level mutators.  Every resource has an 'allocations' key, so only
   the multi-instance branch of set_resource_owner can run; instances is not
   validated. *)
set_resource_owner(resource_id, process_id, instances) ==
    IF resource_id \notin DOMAIN resources \/ process_id \notin DOMAIN processes
    THEN /\ ret' = Ret(<<"set_resource_owner", resource_id, process_id, instances>>, "False")
         /\ UNCHANGED <<resources, processes, process_ids, log_queue, now, _running, _monitor_threads, _lock, callers, maxsize>>
    ELSE IF resources[resource_id].available_instances < instances
    THEN /\ ret' = Ret(<<"set_resource_owner", resource_id, process_id, instances>>, "False")
         /\ UNCHANGED <<resources, processes, process_ids, log_queue, now, _running, _monitor_threads, _lock, callers, maxsize>>
    ELSE LET resource == resources[resource_id]
             owned == [resource EXCEPT
                 !.allocations = MapSet(@, process_id, MapGet(@, process_id, 0) + instances),
                 !.available_instances = @ - instances]
         IN /\ resources' = [resources EXCEPT ![resource_id] =
                    [owned EXCEPT !.state =
                        IF owned.available_instances = 0
                        THEN "fully_allocated" ELSE "partially_allocated"]]
            /\ processes' = [processes EXCEPT ![process_id].owns =
                    IF Contains(@, resource_id) THEN @ ELSE Append(@, resource_id)]
            /\ log_queue' = _log_event(log_queue,
                                Event("resource_owner_set", process_id, resource_id))
            /\ ret' = Ret(<<"set_resource_owner", resource_id, process_id, instances>>, "True")
            /\ UNCHANGED <<process_ids, now, _running, _monitor_threads, _lock, callers, maxsize>>

(* add_waiting_process checking only the process id. *)
add_waiting_process_NoResourceCheck(resource_id, process_id) ==
    IF process_id \notin DOMAIN processes
    THEN /\ ret' = Ret(<<"add_waiting_process", resource_id, process_id>>, "False")
         /\ UNCHANGED <<resources, processes, process_ids, log_queue, now, _running, _monitor_threads, _lock, callers, maxsize>>
    ELSE /\ resources' = [r \in DOMAIN resources |->
                IF r # resource_id \/ Contains(resources[r].waiters, process_id)
                THEN resources[r]
                ELSE [resources[r] EXCEPT
                        !.waiters = Append(@, process_id),
                        !.waiter_timestamps = MapSet(@, process_id, now)]]
         /\ processes' = [processes EXCEPT ![process_id].waiting_for = resource_id]
         /\ log_queue' = _log_event(log_queue,
                             Event("process_waiting", process_id, resource_id))
         /\ ret' = Ret(<<"add_waiting_process", resource_id, process_id>>, "True")
         /\ UNCHANGED <<process_ids, now, _running, _monitor_threads, _lock, callers, maxsize>>

add_waiting_process(resource_id, process_id) ==
    IF resource_id \notin DOMAIN resources \/ process_id \notin DOMAIN processes
    THEN /\ ret' = Ret(<<"add_waiting_process", resource_id, process_id>>, "False")
         /\ UNCHANGED <<resources, processes, process_ids, log_queue, now, _running, _monitor_threads, _lock, callers, maxsize>>
    ELSE /\ resources' = [resources EXCEPT ![resource_id] =
                IF Contains(@.waiters, process_id) THEN @
                ELSE [@ EXCEPT !.waiters = Append(@, process_id),
                               !.waiter_timestamps = MapSet(@, process_id, now)]]
         /\ processes' = [processes EXCEPT ![process_id].waiting_for = resource_id]
         /\ log_queue' = _log_event(log_queue,
                             Event("process_waiting", process_id, resource_id))
         /\ ret' = Ret(<<"add_waiting_process", resource_id, process_id>>, "True")
         /\ UNCHANGED <<process_ids, now, _running, _monitor_threads, _lock, callers, maxsize>>

(* gui.py calls self.deadlock_detector.unregister_resource(resource_id); the
   class defines no such method, the attribute lookup raises. *)
unregister_resource(resource_id) ==
    /\ ret' = Ret(<<"unregister_resource", resource_id>>, "AttributeError")
    /\ UNCHANGED <<resources, processes, process_ids, log_queue, now, _running, _monitor_threads, _lock, callers, maxsize>>

clear_all ==
    /\ resources' = EmptyMap
    /\ processes' = EmptyMap
    /\ process_ids' = << >>
    /\ log_queue' = _log_event(log_queue, Event("system_cleared", None, None))
    /\ ret' = Ret(<<"clear_all">>, "True")
    /\ UNCHANGED <<now, _running, _monitor_threads, _lock, callers, maxsize>>

(* time.time() moves on between two calls. *)
tick ==
    /\ now < MaxTime
    /\ now' = now + 1
    /\ UNCHANGED <<resources, processes, process_ids, log_queue, ret,
                   _running, _monitor_threads, _lock, callers, maxsize>>

(* ---- wait-for graph and cycle detection ---- *)

WaitForGraph_WithSelf(procs, ids) ==
    [p \in DOMAIN procs |->
        IF procs[p].waiting_for # None
        THEN SelectSeq(ids, LAMBDA q : Contains(procs[q].owns, procs[p].waiting_for))
        ELSE << >>]

(* A graph builder that stops at the first holder it finds. *)
WaitForGraph_FirstHolder(procs, ids) ==
    [p \in DOMAIN procs |->
        IF procs[p].waiting_for # None
        THEN LET holders == SelectSeq(ids, LAMBDA q :
                                q # p /\ Contains(procs[q].owns, procs[p].waiting_for))
             IN IF holders = << >> THEN << >> ELSE <<Head(holders)>>
        ELSE << >>]

(* wait_for[p]: the other processes, in dict order, whose owns list holds the
   resource p waits for (empty when p does not wait or nobody else owns it). *)
WaitForGraph(procs, ids) ==
    [p \in DOMAIN procs |->
        IF procs[p].waiting_for # None
        THEN SelectSeq(ids, LAMBDA q : q # p /\ Contains(procs[q].owns, procs[p].waiting_for))
        ELSE << >>]

(* networkx.simple_cycles(G): every elementary cycle of G exactly once.  A
   cycle is listed from its member that comes first in dict order. *)
IsElementaryCycle(wait_for, c) ==
    /\ Len(c) >= 1
    /\ \A i, j \in 1..Len(c) : i # j => c[i] # c[j]
    /\ \A i \in 1..Len(c) : Contains(wait_for[c[i]], c[(i % Len(c)) + 1])

RECURSIVE SetToSeq(_)
SetToSeq(S) ==
    IF S = {} THEN << >>
    ELSE LET x == CHOOSE y \in S : TRUE IN <<x>> \o SetToSeq(S \ {x})

RECURSIVE PathsOfLength(_, _)
PathsOfLength(nodes, k) ==
    IF k = 0 THEN {<< >>}
    ELSE {Append(c, n) : c \in PathsOfLength(nodes, k - 1), n \in nodes}

simple_cycles(wait_for, ids) ==
    LET nodes == DOMAIN wait_for
        cands == UNION {PathsOfLength(nodes, k) : k \in 1..Cardinality(nodes)}
    IN SetToSeq({c \in cands :
            /\ IsElementaryCycle(wait_for, c)
            /\ \A i \in 2..Len(c) : IndexOf(ids, c[1]) < IndexOf(ids, c[i])})

(* The depth-first fallback.  path and visited are mutated in place by the
   recursive calls, so every call returns them with its result; cycle = << >>
   stands for None.  When a cycle is found the path is returned unpopped. *)
RECURSIVE find_cycle(_, _, _, _)
RECURSIVE find_cycle_neighbors(_, _, _, _, _)
find_cycle(wait_for, node, path, visited) ==
    IF Contains(path, node)
    THEN [cycle |-> SubSeq(path, IndexOf(path, node), Len(path)),
          path |-> path, visited |-> visited]
    ELSE IF node \in visited
    THEN [cycle |-> << >>, path |-> path, visited |-> visited]
    ELSE LET r == find_cycle_neighbors(wait_for, node, 1,
                                       Append(path, node), visited \cup {node})
         IN IF r.cycle # << >> THEN r
            ELSE [r EXCEPT !.path = SubSeq(@, 1, Len(@) - 1)]

find_cycle_neighbors(wait_for, node, i, path, visited) ==
    IF i > Len(wait_for[node])
    THEN [cycle |-> << >>, path |-> path, visited |-> visited]
    ELSE LET r == find_cycle(wait_for, wait_for[node][i], path, visited)
         IN IF r.cycle # << >> THEN r
            ELSE find_cycle_neighbors(wait_for, node, i + 1, r.path, r.visited)

RECURSIVE dfs_cycles(_, _, _)
dfs_cycles(wait_for, ids, i) ==
    IF i > Len(ids) THEN << >>
    ELSE LET cycle == find_cycle(wait_for, ids[i], << >>, {}).cycle
         IN (IF cycle # << >> THEN <<cycle>> ELSE << >>) \o dfs_cycles(wait_for, ids, i + 1)

_detect_deadlocks_from_snapshot(res, procs, ids, has_networkx) ==
    IF DOMAIN res = {} \/ DOMAIN procs = {} THEN << >>
    ELSE LET wait_for == WaitForGraph(procs, ids)
         IN IF has_networkx THEN simple_cycles(wait_for, ids)
            ELSE dfs_cycles(wait_for, ids, 1)

(* A detection that logs what it finds. *)
detect_deadlocks_Logs ==
    /\ \E has_networkx \in BOOLEAN :
          /\ ret' = [call |-> Traced(<<"detect_deadlocks">>), val |-> "list",
                     deadlocks |-> _detect_deadlocks_from_snapshot(
                                       resources, processes, process_ids, has_networkx)]
          /\ log_queue' = _log_event(log_queue, Event("deadlock_detected", None, None))
    /\ UNCHANGED <<resources, processes, process_ids, now, _running, _monitor_threads, _lock, callers, maxsize>>

(* self._has_networkx is fixed by the import in __init__ and read only here:
   the outcome of the import is chosen when the detection runs. *)
detect_deadlocks ==
    /\ \E has_networkx \in BOOLEAN :
          ret' = [call |-> Traced(<<"detect_deadlocks">>), val |-> "list",
                  deadlocks |-> _detect_deadlocks_from_snapshot(
                                    resources, processes, process_ids, has_networkx)]
    /\ UNCHANGED <<resources, processes, process_ids, log_queue, now, _running, _monitor_threads, _lock, callers, maxsize>>

(* ---- background monitor ---- *)

(* _monitor_threads[t] is where the t-th thread started by start_monitoring
   stands: "check" at the test of `while self._running`, "sleep" inside the
   loop body before the snapshot, "crashed" after an uncaught exception,
   "exited" after leaving the loop.  self._monitor_thread is the last one.
   Where the loop body is taken in steps, "copy" is inside the first `with
   self._lock` block, "detect" at the call of the detection, "log" before the
   second block and "append" inside it. *)
Alive(pc) == pc \in {"check", "sleep", "copy", "detect", "log", "append"}

(* No guard: every call starts one more thread. *)
start_monitoring ==
    /\ Len(_monitor_threads) < MaxThreads
    /\ _running' = TRUE
    /\ _monitor_threads' = Append(_monitor_threads, "check")
    /\ ret' = Ret(<<"start_monitoring">>, "None")
    /\ UNCHANGED <<resources, processes, process_ids, log_queue, now,
                   _lock, callers, maxsize>>

(* Where the joined thread can stand when join(2.0) returns: where it was (the
   join timed out), or as far as its own steps take it with _running False. *)
JoinOutcomes(pc) ==
    {pc} \cup (IF pc = "check" THEN {"exited"}
               ELSE IF pc = "sleep"
               THEN (IF resources = EmptyMap THEN {"check", "exited"} ELSE {"crashed"})
               ELSE {})

stop_monitoring ==
    IF ~_running
    THEN /\ ret' = Ret(<<"stop_monitoring">>, "None")
         /\ UNCHANGED <<resources, processes, process_ids, log_queue, now,
                        _running, _monitor_threads, _lock, callers, maxsize>>
    ELSE LET t == Len(_monitor_threads)
         IN \E pc \in JoinOutcomes(_monitor_threads[t]) :
               /\ _running' = FALSE
               /\ _monitor_threads' = [_monitor_threads EXCEPT ![t] = pc]
               /\ log_queue' = IF Alive(pc)
                                THEN _log_event(log_queue, Event("warning", None, None))
                                ELSE log_queue
               /\ ret' = Ret(<<"stop_monitoring">>, "None")
               /\ UNCHANGED <<resources, processes, process_ids, now,
                              _lock, callers, maxsize>>

(* A loop test that does not look at the flag. *)
monitor_check_IgnoresFlag(t) ==
    /\ _monitor_threads[t] = "check"
    /\ _monitor_threads' = [_monitor_threads EXCEPT ![t] = "sleep"]
    /\ UNCHANGED <<resources, processes, process_ids, log_queue, now, ret, _running,
                   _lock, callers, maxsize>>

(* `while self._running:` *)
monitor_check(t) ==
    /\ _monitor_threads[t] = "check"
    /\ _monitor_threads' = [_monitor_threads EXCEPT
                               ![t] = IF _running THEN "sleep" ELSE "exited"]
    /\ UNCHANGED <<resources, processes, process_ids, log_queue, now, ret, _running,
                   _lock, callers, maxsize>>

RECURSIVE LogCycles(_, _, _)
LogCycles(q, deadlocks, i) ==
    IF i > Len(deadlocks) THEN q
    ELSE LogCycles(_log_event(q, Event("deadlock_detected", deadlocks[i], None)),
                   deadlocks, i + 1)

(* The loop body after the sleep.  The snapshot reads r_info['owner'] of every
   resource, a key no resource has: with any resource registered the thread
   dies of KeyError.  With none, the detection runs on the empty snapshot and
   its cycles, if any, are logged. *)
monitor_scan(t) ==
    /\ _monitor_threads[t] = "sleep"
    /\ IF resources # EmptyMap
       THEN /\ _monitor_threads' = [_monitor_threads EXCEPT ![t] = "crashed"]
            /\ UNCHANGED log_queue
       ELSE /\ _monitor_threads' = [_monitor_threads EXCEPT ![t] = "check"]
            /\ \E has_networkx \in BOOLEAN :
                  log_queue' = LogCycles(log_queue,
                                  _detect_deadlocks_from_snapshot(
                                      EmptyMap, processes, process_ids, has_networkx), 1)
    /\ UNCHANGED <<resources, processes, process_ids, now, ret, _running,
                   _lock, callers, maxsize>>

(* ---- the loop body of the monitor, taken in steps ---- *)

(* `with self._lock:` at 65 and at 87: the thread waits for the lock and takes
   it. *)
monitor_enter(t) ==
    /\ _monitor_threads[t] \in {"sleep", "log"}
    /\ _lock = None
    /\ _lock' = MonitorIds[t]
    /\ _monitor_threads' = [_monitor_threads EXCEPT
                               ![t] = IF @ = "sleep" THEN "copy" ELSE "append"]
    /\ UNCHANGED <<resources, processes, process_ids, log_queue, now, ret, _running,
                   callers, maxsize>>

(* A first block that goes on to the detection without leaving the lock. *)
monitor_exit_KeepsLock(t) ==
    /\ _monitor_threads[t] \in {"copy", "append"}
    /\ _lock = MonitorIds[t]
    /\ _monitor_threads' = [_monitor_threads EXCEPT
                               ![t] = IF @ = "copy" THEN "detect" ELSE "check"]
    /\ callers' = [callers EXCEPT ![MonitorIds[t]] =
                      [@ EXCEPT !.resources = resources,
                                !.processes = processes,
                                !.process_ids = process_ids]]
    /\ _lock' = IF _monitor_threads[t] = "copy" THEN _lock ELSE None
    /\ UNCHANGED <<resources, processes, process_ids, log_queue, now, ret, _running,
                   maxsize>>

(* The body of the block the thread is in, and the release of the lock at its
   end.  In the first block (66-80) the thread copies the two maps; reading
   r_info['owner'] raises KeyError for any resource there is, which ends the
   thread.  In the second (88-93) it appends one event for each cycle. *)
monitor_exit(t) ==
    /\ _monitor_threads[t] \in {"copy", "append"}
    /\ _lock = MonitorIds[t]
    /\ _lock' = None
    /\ IF _monitor_threads[t] = "copy"
       THEN IF resources # EmptyMap
            THEN /\ _monitor_threads' = [_monitor_threads EXCEPT ![t] = "crashed"]
                 /\ UNCHANGED <<callers, log_queue>>
            ELSE /\ _monitor_threads' = [_monitor_threads EXCEPT ![t] = "detect"]
                 /\ callers' = [callers EXCEPT ![MonitorIds[t]] =
                                   [@ EXCEPT !.resources = EmptyMap,
                                             !.processes = processes,
                                             !.process_ids = process_ids]]
                 /\ UNCHANGED log_queue
       ELSE /\ _monitor_threads' = [_monitor_threads EXCEPT ![t] = "check"]
            /\ log_queue' = LogCycles(log_queue, callers[MonitorIds[t]].deadlocks, 1)
            /\ UNCHANGED callers
    /\ UNCHANGED <<resources, processes, process_ids, now, ret, _running, maxsize>>

(* The detection on the copies (83) and the test of its result (86). *)
monitor_detect(t) ==
    /\ _monitor_threads[t] = "detect"
    /\ \E has_networkx \in BOOLEAN :
          LET deadlocks == _detect_deadlocks_from_snapshot(
                               callers[MonitorIds[t]].resources,
                               callers[MonitorIds[t]].processes,
                               callers[MonitorIds[t]].process_ids, has_networkx)
          IN /\ callers' = [callers EXCEPT ![MonitorIds[t]].deadlocks = deadlocks]
             /\ _monitor_threads' = [_monitor_threads EXCEPT
                                        ![t] = IF deadlocks = << >> THEN "check"
                                               ELSE "log"]
    /\ UNCHANGED <<resources, processes, process_ids, log_queue, now, ret, _running,
                   _lock, maxsize>>

(* ---- caller threads: calls taken in steps ---- *)

(* The event of add_log_entry. *)
InfoEvent(component_id, message) ==
    [action |-> "info", message |-> message, component |-> component_id]

(* The call of caller t returns: the `with` block, if the call is in one,
   releases the lock. *)
Returns(t) ==
    /\ _lock' = IF _lock = t THEN None ELSE _lock
    /\ ret' = Ret(<<callers[t].op, t>>,
                  IF callers[t].op = "clear_all" THEN "True" ELSE "None")

(* add_log_entry builds its event and calls _log_event; it never takes the
   lock. *)
add_log_entry(t, message) ==
    /\ callers[t].pc = "idle"
    /\ callers' = [callers EXCEPT ![t] =
                      [@ EXCEPT !.op = "add_log_entry", !.pc = "put",
                                !.event = InfoEvent(t, message),
                                !.before = log_queue]]
    /\ UNCHANGED <<resources, processes, process_ids, log_queue, now, ret,
                   _running, _monitor_threads, _lock, maxsize>>

(* An eviction that takes the newest entry. *)
log_evict_Newest(t) ==
    /\ callers[t].pc = "evict"
    /\ IF log_queue = << >>
       THEN /\ callers' = [callers EXCEPT ![t].pc = "idle"]
            /\ Returns(t)
            /\ UNCHANGED log_queue
       ELSE /\ log_queue' = SubSeq(log_queue, 1, Len(log_queue) - 1)
            /\ callers' = [callers EXCEPT ![t].pc = "retry"]
            /\ UNCHANGED <<ret, _lock>>
    /\ UNCHANGED <<resources, processes, process_ids, now,
                   _running, _monitor_threads, maxsize>>

(* _log_event, first put_nowait: stores the event, or raises Full, which the
   handler catches. *)
log_put(t) ==
    /\ callers[t].pc = "put"
    /\ IF Len(log_queue) < maxsize
       THEN /\ log_queue' = Append(log_queue, callers[t].event)
            /\ callers' = [callers EXCEPT ![t].pc = "idle"]
            /\ Returns(t)
       ELSE /\ callers' = [callers EXCEPT ![t].pc = "evict"]
            /\ UNCHANGED <<log_queue, ret, _lock>>
    /\ UNCHANGED <<resources, processes, process_ids, now,
                   _running, _monitor_threads, maxsize>>

(* _log_event, get_nowait in the handler: takes the oldest entry, or raises
   Empty, which the bare except swallows together with the event. *)
log_evict(t) ==
    /\ callers[t].pc = "evict"
    /\ IF log_queue = << >>
       THEN /\ callers' = [callers EXCEPT ![t].pc = "idle"]
            /\ Returns(t)
            /\ UNCHANGED log_queue
       ELSE /\ log_queue' = Tail(log_queue)
            /\ callers' = [callers EXCEPT ![t].pc = "retry"]
            /\ UNCHANGED <<ret, _lock>>
    /\ UNCHANGED <<resources, processes, process_ids, now,
                   _running, _monitor_threads, maxsize>>

(* _log_event, second put_nowait: stores the event, or raises Full, which the
   bare except swallows together with the event. *)
log_retry(t) ==
    /\ callers[t].pc = "retry"
    /\ log_queue' = IF Len(log_queue) < maxsize
                    THEN Append(log_queue, callers[t].event)
                    ELSE log_queue
    /\ callers' = [callers EXCEPT ![t].pc = "idle"]
    /\ Returns(t)
    /\ UNCHANGED <<resources, processes, process_ids, now,
                   _running, _monitor_threads, maxsize>>

(* clear_all taken in steps: the lock and the first assignment, *)
clear_all_resources(t) ==
    /\ callers[t].pc = "idle"
    /\ _lock = None
    /\ _lock' = t
    /\ resources' = EmptyMap
    /\ callers' = [callers EXCEPT ![t] =
                      [@ EXCEPT !.op = "clear_all", !.pc = "clear_processes"]]
    /\ UNCHANGED <<processes, process_ids, log_queue, now, ret,
                   _running, _monitor_threads, maxsize>>

(* the second assignment and the event, which _log_event then stores. *)
clear_all_processes(t) ==
    /\ callers[t].pc = "clear_processes"
    /\ processes' = EmptyMap
    /\ process_ids' = << >>
    /\ callers' = [callers EXCEPT ![t] =
                      [@ EXCEPT !.pc = "put",
                                !.event = Event("system_cleared", None, None),
                                !.before = log_queue]]
    /\ UNCHANGED <<resources, log_queue, now, ret,
                   _running, _monitor_threads, _lock, maxsize>>

(* What get_resource_status returns for one resource. *)
ResourceStatus(r_info) ==
    [state |-> r_info.state,
     waiters |-> r_info.waiters,
     total_instances |-> r_info.total_instances,
     available_instances |-> r_info.available_instances,
     allocations |-> r_info.allocations]

(* A status query that reads the map without taking the lock. *)
get_resource_status_NoLock(t) ==
    /\ callers[t].pc = "idle"
    /\ callers' = [callers EXCEPT ![t] =
                      [@ EXCEPT !.op = "get_resource_status",
                                !.resources = [r \in DOMAIN resources |->
                                                  ResourceStatus(resources[r])]]]
    /\ ret' = Ret(<<"get_resource_status", t>>, "dict")
    /\ UNCHANGED <<resources, processes, process_ids, log_queue, now,
                   _running, _monitor_threads, _lock, maxsize>>

(* The status getters: lock, copy of one map, unlock. *)
get_resource_status(t) ==
    /\ callers[t].pc = "idle"
    /\ _lock = None
    /\ callers' = [callers EXCEPT ![t] =
                      [@ EXCEPT !.op = "get_resource_status",
                                !.resources = [r \in DOMAIN resources |->
                                                  ResourceStatus(resources[r])]]]
    /\ ret' = Ret(<<"get_resource_status", t>>, "dict")
    /\ UNCHANGED <<resources, processes, process_ids, log_queue, now,
                   _running, _monitor_threads, _lock, maxsize>>

get_process_status(t) ==
    /\ callers[t].pc = "idle"
    /\ _lock = None
    /\ callers' = [callers EXCEPT ![t] =
                      [@ EXCEPT !.op = "get_process_status",
                                !.processes = processes,
                                !.process_ids = process_ids]]
    /\ ret' = Ret(<<"get_process_status", t>>, "dict")
    /\ UNCHANGED <<resources, processes, process_ids, log_queue, now,
                   _running, _monitor_threads, _lock, maxsize>>

(* detect_deadlocks taken in steps: the lock and the reads of the resource
   map, *)
detect_deadlocks_resources(t) ==
    /\ callers[t].pc = "idle"
    /\ _lock = None
    /\ _lock' = t
    /\ callers' = [callers EXCEPT ![t] =
                      [@ EXCEPT !.op = "detect_deadlocks", !.pc = "detect_processes",
                                !.resources = resources]]
    /\ UNCHANGED <<resources, processes, process_ids, log_queue, now, ret,
                   _running, _monitor_threads, maxsize>>

(* the reads of the process map, the result and the unlock. *)
detect_deadlocks_processes(t) ==
    /\ callers[t].pc = "detect_processes"
    /\ callers' = [callers EXCEPT ![t] =
                      [@ EXCEPT !.pc = "idle",
                                !.processes = processes,
                                !.process_ids = process_ids]]
    /\ _lock' = None
    /\ \E has_networkx \in BOOLEAN :
          ret' = [call |-> Traced(<<"detect_deadlocks", t>>), val |-> "list",
                  deadlocks |-> _detect_deadlocks_from_snapshot(
                                    callers[t].resources, processes, process_ids,
                                    has_networkx)]
    /\ UNCHANGED <<resources, processes, process_ids, log_queue, now,
                   _running, _monitor_threads, maxsize>>

(* simulate_deadlock taken in steps.  The call builds its two lists of ids and
   takes the lock (475-481); the ids are the first num_processes and
   num_resources of the sim_ names. *)
simulate_deadlock(t, num_processes, num_resources) ==
    /\ callers[t].pc = "idle"
    /\ callers[t].simulations < MaxSimulations
    /\ _lock = None
    /\ _lock' = t
    /\ callers' = [callers EXCEPT ![t] =
                      [@ EXCEPT !.op = "simulate_deadlock", !.pc = "simulate_setup",
                                !.sim_processes = SubSeq(SimProcessIds, 1, num_processes),
                                !.sim_resources = SubSeq(SimResourceIds, 1, num_resources)]]
    /\ UNCHANGED <<resources, processes, process_ids, log_queue, now, ret,
                   _running, _monitor_threads, maxsize>>

(* What a caller inside the two loops of simulate_deadlock calls next. *)
InProcessLoop(t) ==
    /\ callers[t].pc = "simulate_setup"
    /\ callers[t].sim_processes # << >>

InResourceLoop(t) ==
    /\ callers[t].pc = "simulate_setup"
    /\ callers[t].sim_processes = << >>
    /\ callers[t].sim_resources # << >>

(* register_process called by thread t, either directly or from the first loop
   of simulate_deadlock (482-483).  The method takes the lock itself (236),
   and threading.Lock is not reentrant (16): the call proceeds only when no
   thread holds the lock, the caller included. *)
call_register_process(t, process_id) ==
    /\ \/ callers[t].pc = "idle"
       \/ InProcessLoop(t) /\ process_id = Head(callers[t].sim_processes)
    /\ _lock = None
    /\ IF process_id \in DOMAIN processes
       THEN /\ ret' = Ret(<<"register_process", process_id>>, "False")
            /\ UNCHANGED <<processes, process_ids, log_queue>>
       ELSE /\ processes' = MapSet(processes, process_id,
                                   [owns |-> << >>, waiting_for |-> None])
            /\ process_ids' = Append(process_ids, process_id)
            /\ log_queue' = _log_event(log_queue,
                                Event("process_registered", process_id, None))
            /\ ret' = Ret(<<"register_process", process_id>>, "True")
    /\ callers' = IF callers[t].pc = "idle" THEN callers
                  ELSE [callers EXCEPT ![t].sim_processes = Tail(@)]
    /\ UNCHANGED <<resources, now, _running, _monitor_threads, _lock, maxsize>>

(* register_resource with one instance, called directly or from the second
   loop of simulate_deadlock (485-486); it takes the lock at 209. *)
call_register_resource(t, resource_id) ==
    /\ \/ callers[t].pc = "idle"
       \/ InResourceLoop(t) /\ resource_id = Head(callers[t].sim_resources)
    /\ _lock = None
    /\ IF resource_id \in DOMAIN resources
       THEN /\ ret' = Ret(<<"register_resource", resource_id, 1>>, "False")
            /\ UNCHANGED <<resources, log_queue>>
       ELSE /\ resources' = MapSet(resources, resource_id,
                   [total_instances |-> 1,
                    available_instances |-> 1,
                    allocations |-> EmptyMap,
                    waiters |-> << >>,
                    waiter_timestamps |-> EmptyMap,
                    waiting_for |-> EmptyMap,
                    state |-> "free"])
            /\ log_queue' = _log_event(log_queue,
                                Event("resource_registered", None, resource_id))
            /\ ret' = Ret(<<"register_resource", resource_id, 1>>, "True")
    /\ callers' = IF callers[t].pc = "idle" THEN callers
                  ELSE [callers EXCEPT ![t].sim_resources = Tail(@)]
    /\ UNCHANGED <<processes, process_ids, now, _running, _monitor_threads,
                   _lock, maxsize>>

(* The end of the setup (488-527): both loops are through, the call logs
   deadlock_simulation_started, leaves the lock, starts the _simulate thread
   and returns the two lists. *)
simulate_started(t) ==
    /\ callers[t].pc = "simulate_setup"
    /\ callers[t].sim_processes = << >>
    /\ callers[t].sim_resources = << >>
    /\ log_queue' = _log_event(log_queue,
                        Event("deadlock_simulation_started", None, None))
    /\ _lock' = None
    /\ callers' = [callers EXCEPT ![t] =
                      [@ EXCEPT !.pc = "idle", !.simulations = @ + 1]]
    /\ ret' = Ret(<<"simulate_deadlock", t>>, "dict")
    /\ UNCHANGED <<resources, processes, process_ids, now,
                   _running, _monitor_threads, maxsize>>

(* The _simulate thread of a call that had nothing to register (496-521): its
   loops are empty, and after the timeout it logs deadlock_simulation_ended
   under the lock. *)
_simulate(t) ==
    /\ callers[t].simulations > 0
    /\ _lock = None
    /\ log_queue' = _log_event(log_queue,
                        Event("deadlock_simulation_ended", None, None))
    /\ callers' = [callers EXCEPT ![t].simulations = @ - 1]
    /\ UNCHANGED <<resources, processes, process_ids, now, ret,
                   _running, _monitor_threads, _lock, maxsize>>

(* get_logs taken in steps; it never takes the lock.  The call starts with an
   empty list (441). *)
get_logs(t) ==
    /\ callers[t].pc = "idle"
    /\ callers' = [callers EXCEPT ![t] =
                      [@ EXCEPT !.op = "get_logs", !.pc = "empty", !.logs = << >>]]
    /\ UNCHANGED <<resources, processes, process_ids, log_queue, now, ret,
                   _running, _monitor_threads, _lock, maxsize>>

(* The loop test, log_queue.empty() (442): on an empty queue the call returns
   its list (444), otherwise it goes on to the removal.  A call that has
   drained MaxDrain events is not followed further. *)
get_logs_empty(t) ==
    /\ callers[t].pc = "empty"
    /\ IF log_queue = << >>
       THEN /\ callers' = [callers EXCEPT ![t].pc = "idle"]
            /\ ret' = Ret(<<"get_logs", t>>, "list")
       ELSE /\ Len(callers[t].logs) < MaxDrain
            /\ callers' = [callers EXCEPT ![t].pc = "get"]
            /\ UNCHANGED ret
    /\ UNCHANGED <<resources, processes, process_ids, log_queue, now,
                   _running, _monitor_threads, _lock, maxsize>>

(* The removal, log_queue.get() (443): a blocking get, which waits while the
   queue is empty and then takes the oldest entry. *)
get_logs_get(t) ==
    /\ callers[t].pc = "get"
    /\ log_queue # << >>
    /\ log_queue' = Tail(log_queue)
    /\ callers' = [callers EXCEPT ![t] =
                      [@ EXCEPT !.pc = "empty", !.logs = Append(@, Head(log_queue))]]
    /\ UNCHANGED <<resources, processes, process_ids, now, ret,
                   _running, _monitor_threads, _lock, maxsize>>

(* ---- specifications ---- *)
Optional(N) == {<< >>} \cup {<<n>> : n \in N}

Registering(P, RI) ==
    \/ \E ri \in RI : register_resource(ri[1], ri[2])
    \/ \E p \in P : register_process(p)

Requesting(P, R, N) == \E p \in P, r \in R, n \in N : request_resource(p, r, n)

Releasing(P, R, N) == \E p \in P, r \in R, n \in Optional(N) : release_resource(p, r, n)

Unregistering(P) == \E p \in P : unregister_process(p)

(* Every tracker operation, two processes and two resources. *)
Next ==
    \/ Registering(Procs, Res \X Counts)
    \/ Requesting(Procs, Res, Counts)
    \/ Releasing(Procs, Res, Counts)
    \/ Unregistering(Procs)
    \/ clear_all

Spec == Init /\ [][Next]_vars

(* Every tracker operation, three processes queueing on one resource. *)
NextQueue ==
    \/ Registering(QueueProcs, QueueRes \X Counts)
    \/ Requesting(QueueProcs, QueueRes, Counts)
    \/ Releasing(QueueProcs, QueueRes, Counts)
    \/ Unregistering(QueueProcs)
    \/ clear_all

SpecQueue == Init /\ [][NextQueue]_vars

(* Three processes acquiring and releasing single instances of two resources,
   with detect_deadlocks called in every state. *)
NextDetect ==
    \/ Registering(DetectProcs, DetectResources)
    \/ Requesting(DetectProcs, {"r1", "r2"}, {1})
    \/ Releasing(DetectProcs, {"r1", "r2"}, {1})
    \/ detect_deadlocks

SpecDetect == Init /\ [][NextDetect]_vars

(* Calls with any instance count, set_resource_owner included.  Counts below 1
   let the instance counters drift without limit; Drift keeps the explored
   part finite. *)
AnyCounts == (0 - 1)..MaxInstances

Drift ==
    \A r \in DOMAIN resources :
        /\ resources[r].available_instances \in (0 - 1)..(MaxInstances + 1)
        /\ \A p \in DOMAIN resources[r].allocations :
              resources[r].allocations[p] \in (0 - 1)..(MaxInstances + 1)

NextAnyCount ==
    \/ Registering(AnyProcs, AnyRes \X AnyCounts)
    \/ Requesting(AnyProcs, AnyRes, AnyCounts)
    \/ Releasing(AnyProcs, AnyRes, AnyCounts) /\ Drift'
    \/ /\ \E p \in AnyProcs, r \in AnyRes, n \in AnyCounts : set_resource_owner(r, p, n)
       /\ Drift'

SpecAnyCount == Init /\ [][NextAnyCount]_vars

(* The same calls by a single process, with the calls recorded in ret.call. *)
NextAnyCountCalls ==
    \/ Registering(SoleProc, AnyRes \X AnyCounts)
    \/ Requesting(SoleProc, AnyRes, AnyCounts)
    \/ Releasing(SoleProc, AnyRes, AnyCounts) /\ Drift'
    \/ /\ \E p \in SoleProc, r \in AnyRes, n \in AnyCounts : set_resource_owner(r, p, n)
       /\ Drift'

SpecAnyCountCalls == InitCalls /\ [][NextAnyCountCalls]_vars

(* The tracker operations with the history of calls recorded in ret.call: two
   processes on two single-instance resources (NextCalls), and two processes
   sharing one resource of several instances (NextShareCalls). *)
NextCalls ==
    \/ Registering(Procs, Res \X {1})
    \/ Requesting(Procs, Res, Counts)
    \/ Releasing(Procs, Res, Counts)
    \/ Unregistering(Procs)
    \/ clear_all

SpecCalls == InitCalls /\ [][NextCalls]_vars

NextShareCalls ==
    \/ Registering(ShareProcs, ShareRes \X Counts)
    \/ Requesting(ShareProcs, ShareRes, Counts)
    \/ Releasing(ShareProcs, ShareRes, Counts)
    \/ Unregistering(ShareProcs)
    \/ clear_all

SpecShareCalls == InitCalls /\ [][NextShareCalls]_vars

(* The same, with the lower-level mutators set_resource_owner and
   add_waiting_process. *)
NextMutatorCalls ==
    \/ Registering(ShareProcs, ShareRes \X Counts)
    \/ Requesting(ShareProcs, ShareRes, Counts)
    \/ Releasing(ShareProcs, ShareRes, Counts)
    \/ Unregistering(ShareProcs)
    \/ \E p \in ShareProcs, r \in ShareRes, n \in Counts : set_resource_owner(r, p, n)
    \/ \E p \in ShareProcs, r \in ShareRes : add_waiting_process(r, p)
    \/ clear_all

SpecMutatorCalls == InitCalls /\ [][NextMutatorCalls]_vars

(* The monitor thread beside two processes sharing one resource. *)
NextMonitor ==
    \/ Registering(ShareProcs, ShareRes \X {MaxInstances})
    \/ Requesting(ShareProcs, ShareRes, {1})
    \/ Releasing(ShareProcs, ShareRes, {1})
    \/ clear_all
    \/ start_monitoring
    \/ stop_monitoring
    \/ \E t \in 1..Len(_monitor_threads) : monitor_check(t)
    \/ \E t \in 1..Len(_monitor_threads) : monitor_scan(t)

SpecMonitor == Init /\ [][NextMonitor]_vars

(* Starting and stopping the monitor, calls recorded.  Each monitor thread is
   scheduled again and again: its sleep ends and the lock it asks for is
   released by every tracker operation. *)
NextMonitorStop ==
    \/ Registering(SoleProc, ShareRes \X {1})
    \/ clear_all
    \/ start_monitoring
    \/ stop_monitoring
    \/ \E t \in 1..Len(_monitor_threads) : monitor_check(t)
    \/ \E t \in 1..Len(_monitor_threads) : monitor_scan(t)

SpecMonitorStop ==
    /\ InitCalls
    /\ [][NextMonitorStop]_vars
    /\ \A t \in 1..MaxThreads :
          /\ WF_vars(t <= Len(_monitor_threads) /\ monitor_check(t))
          /\ WF_vars(t <= Len(_monitor_threads) /\ monitor_scan(t))

(* ---- claims ---- *)
RECURSIVE SumOf(_)
SumOf(f) ==
    IF DOMAIN f = {} THEN 0
    ELSE LET k == CHOOSE x \in DOMAIN f : TRUE IN f[k] + SumOf(MapDel(f, k))

Ids == Procs \cup QueueProcs \cup DetectProcs \cup AnyProcs \cup ShareProcs

Last(q) == q[Len(q)]

(* e is the event action logged for process p and resource r. *)
IsEvent(e, action, p, r) ==
    /\ e.action = action
    /\ e.process_id = p
    /\ e.resource_id = r

(* C1: instance conservation.  In every state reached by register, request,
   release, unregister_process and clear_all calls, every registered resource
   has available_instances + the sum of its allocations = total_instances. *)
C1_Conservation ==
    \A r \in DOMAIN resources :
        resources[r].available_instances + SumOf(resources[r].allocations)
            = resources[r].total_instances

(* C2: ownership mirror.  For every registered process p and resource r,
   allocations(r)[p] exists and is > 0 iff r is in owns(p); no allocations
   entry is 0 and none names a process that is not registered. *)
C2_OwnershipMirror ==
    \A r \in DOMAIN resources :
        /\ \A p \in DOMAIN resources[r].allocations :
              /\ resources[r].allocations[p] > 0
              /\ p \in DOMAIN processes
        /\ \A p \in DOMAIN processes :
              (p \in DOMAIN resources[r].allocations) <=> Contains(processes[p].owns, r)

(* C3: wait mirror.  For every process id p and registered resource r:
   p is registered with waiting_for = r  iff  p is in waiters(r)  iff  p is a
   key of the requested-amount map of r. *)
C3_WaitMirror ==
    \A r \in DOMAIN resources : \A p \in Ids :
        /\ (p \in DOMAIN processes /\ processes[p].waiting_for = r)
              <=> Contains(resources[r].waiters, p)
        /\ Contains(resources[r].waiters, p) <=> (p \in DOMAIN resources[r].waiting_for)

(* A promotion has just taken q out of the three wait structures of r while
   p is still in all three. *)
C3_Witness ==
    \E r \in DOMAIN resources : \E p, q \in DOMAIN processes :
        /\ p # q
        /\ log_queue # << >>
        /\ IsEvent(Last(log_queue), "resource_acquired_after_wait", q, r)
        /\ processes[q].waiting_for = None
        /\ ~Contains(resources[r].waiters, q)
        /\ q \notin DOMAIN resources[r].waiting_for
        /\ processes[p].waiting_for = r
        /\ Contains(resources[r].waiters, p)
        /\ p \in DOMAIN resources[r].waiting_for

(* C4: availability bounds.  Every resource has
   0 <= available_instances <= total_instances, whatever instance counts were
   passed to request_resource, release_resource and set_resource_owner. *)
C4_AvailabilityBounds ==
    \A r \in DOMAIN resources :
        /\ 0 <= resources[r].available_instances
        /\ resources[r].available_instances <= resources[r].total_instances

(* C5: at most one wait.  A request_resource call by a registered process whose
   waiting_for is not None returns False and leaves the resource map, the
   process map and the event log unchanged, for any target resource and any
   count n >= 1. *)
C5_AtMostOneWait ==
    [][\A p \in DOMAIN processes :
          (/\ processes[p].waiting_for # None
           /\ ret'.call[1] = "request_resource"
           /\ ret'.call[2] = p
           /\ ret'.call[4] >= 1)
          => /\ ret'.val = "False"
             /\ resources' = resources
             /\ processes' = processes
             /\ process_ids' = process_ids
             /\ log_queue' = log_queue]_vars

(* A waiting process has just asked for another resource that had enough free
   instances, and was turned down. *)
C5_Witness ==
    /\ Len(ret.call) = 4
    /\ ret.call[1] = "request_resource"
    /\ ret.val = "False"
    /\ ret.call[2] \in DOMAIN processes
    /\ ret.call[3] \in DOMAIN resources
    /\ processes[ret.call[2]].waiting_for \in DOMAIN resources
    /\ processes[ret.call[2]].waiting_for # ret.call[3]
    /\ resources[ret.call[3]].available_instances >= ret.call[4]

(* The step is a release_resource call that promoted waiter w of resource r:
   only release_resource logs resource_acquired_after_wait, as its last event. *)
PromotedByRelease(w, r) ==
    /\ r \in DOMAIN resources
    /\ r \in DOMAIN resources'
    /\ Contains(resources[r].waiters, w)
    /\ ~Contains(resources'[r].waiters, w)
    /\ log_queue' # << >>
    /\ IsEvent(Last(log_queue'), "resource_acquired_after_wait", w, r)

(* C6: FIFO promotion.  The waiter promoted by release_resource on r is the
   earliest in arrival order among the waiters whose requested amount fits in
   the instances available after the release: every waiter queued before it
   asked for more than was available. *)
C6_FIFOPromotion ==
    [][\A r \in QueueRes : \A w \in QueueProcs :
          PromotedByRelease(w, r)
          => LET waiters == resources[r].waiters
                 freed == resources'[r].available_instances + resources[r].waiting_for[w]
             IN \A j \in 1..(IndexOf(waiters, w) - 1) :
                    resources[r].waiting_for[waiters[j]] > freed]_vars

(* b has just been promoted while c, which asked for no more than b did, is
   still queued on the same resource. *)
C6_Witness ==
    \E r \in DOMAIN resources : \E b, c \in DOMAIN processes :
        /\ b # c
        /\ log_queue # << >>
        /\ IsEvent(Last(log_queue), "resource_acquired_after_wait", b, r)
        /\ b \in DOMAIN resources[r].allocations
        /\ Contains(resources[r].waiters, c)
        /\ c \in DOMAIN resources[r].waiting_for
        /\ resources[r].waiting_for[c] <= resources[r].allocations[b]
        /\ processes[c].waiting_for = r

(* C7: partial release.  When release_resource(p, r, k) with k below what p
   holds makes available_instances(r) reach the amount n requested by the first
   waiter w of r, w is granted within the call: it leaves waiters, the
   timestamps and the requested-amount map, its waiting_for becomes None, r is
   in its owns, availability ends at old + k - n, and a waiter that held
   nothing of r ends with an allocation of exactly n. *)
C7_PartialRelease ==
    [][\A p \in ShareProcs : \A r \in ShareRes : \A k \in Counts :
          (/\ ret'.call[1] = "release_resource"
           /\ ret'.call[2] = p
           /\ ret'.call[3] = r
           /\ ret'.call[4] = <<k>>
           /\ ret'.val = "True"
           /\ k < resources[r].allocations[p]
           /\ resources[r].waiters # << >>
           /\ Head(resources[r].waiters) \in DOMAIN resources[r].waiting_for
           /\ resources[r].available_instances + k
                 >= resources[r].waiting_for[Head(resources[r].waiters)])
          => LET w == Head(resources[r].waiters)
                 n == resources[r].waiting_for[w]
             IN /\ ~Contains(resources'[r].waiters, w)
                /\ w \notin DOMAIN resources'[r].waiting_for
                /\ w \notin DOMAIN resources'[r].waiter_timestamps
                /\ processes'[w].waiting_for = None
                /\ Contains(processes'[w].owns, r)
                /\ resources'[r].available_instances
                      = resources[r].available_instances + k - n
                /\ w \notin DOMAIN resources[r].allocations
                      => resources'[r].allocations[w] = n]_vars

(* p released one of its instances, still holds the resource, and the waiter w
   was granted on that release. *)
C7_Witness ==
    \E p, w \in DOMAIN processes :
        /\ p # w
        /\ ret.call = <<"release_resource", p, "r1", <<1>>>>
        /\ ret.val = "True"
        /\ "r1" \in DOMAIN resources
        /\ p \in DOMAIN resources["r1"].allocations
        /\ w \in DOMAIN resources["r1"].allocations
        /\ log_queue # << >>
        /\ IsEvent(Last(log_queue), "resource_acquired_after_wait", w, "r1")
        /\ processes[w].waiting_for = None
        /\ Contains(processes[w].owns, "r1")

(* The wait-for relation of the current state, read off the resources: p waits
   on a resource of which another process q holds at least one instance. *)
WaitsOn(p, q) ==
    /\ p \in DOMAIN processes
    /\ q \in DOMAIN processes
    /\ p # q
    /\ processes[p].waiting_for \in DOMAIN resources
    /\ q \in DOMAIN resources[processes[p].waiting_for].allocations
    /\ resources[processes[p].waiting_for].allocations[q] > 0

Succ(c, i) == c[(i % Len(c)) + 1]

(* c is an elementary cycle of the wait-for relation. *)
RealCycle(c) ==
    /\ Len(c) >= 1
    /\ \A i, j \in 1..Len(c) : i # j => c[i] # c[j]
    /\ \A i \in 1..Len(c) : WaitsOn(c[i], Succ(c, i))

Members(c) == {c[i] : i \in 1..Len(c)}

Arrangements ==
    UNION {[1..k -> DetectProcs] : k \in 1..Cardinality(DetectProcs)}

RealCycles == {c \in Arrangements : RealCycle(c)}

Rotation(c, d) ==
    /\ Len(c) = Len(d)
    /\ \E k \in 0..(Len(c) - 1) : \A i \in 1..Len(c) : d[i] = c[((i + k - 1) % Len(c)) + 1]

(* The wait-for relation is exactly the edges of the elementary cycle c. *)
OnlyCycle(c) ==
    \A p, q \in DetectProcs :
        WaitsOn(p, q) <=> \E i \in 1..Len(c) : c[i] = p /\ Succ(c, i) = q

(* C8: exactly-once reporting.  When the wait-for graph consists of a single
   elementary cycle, detect_deadlocks returns exactly one cycle, whose members
   are the processes of that cycle, with either enumeration strategy. *)
C8_ExactlyOnce ==
    ret.val = "list" =>
        \A c \in RealCycles :
            OnlyCycle(c) => /\ Len(ret.deadlocks) = 1
                            /\ Members(ret.deadlocks[1]) = Members(c)

(* C9: no false positive.  Every cycle returned by detect_deadlocks is an
   elementary cycle of the wait-for graph of the current state (distinct
   processes, each waiting on a resource held by the next, the last on one held
   by the first), and the result is empty when that graph has no cycle. *)
C9_NoFalsePositive ==
    ret.val = "list" =>
        /\ \A i \in 1..Len(ret.deadlocks) : RealCycle(ret.deadlocks[i])
        /\ RealCycles = {} => ret.deadlocks = << >>

(* detect_deadlocks has reported a cycle through three processes. *)
C9_Witness ==
    /\ ret.val = "list"
    /\ \E i \in 1..Len(ret.deadlocks) :
          /\ Len(ret.deadlocks[i]) = 3
          /\ RealCycle(ret.deadlocks[i])

(* C10: completeness.  detect_deadlocks returns every elementary cycle of the
   wait-for graph, up to rotation, with either enumeration strategy. *)
C10_Completeness ==
    ret.val = "list" =>
        \A c \in RealCycles :
            \E i \in 1..Len(ret.deadlocks) : Rotation(c, ret.deadlocks[i])

(* The step is an unregister_process(p) call that returned True: only that call
   logs process_unregistered, as its last event. *)
Unregistered(p) ==
    /\ p \in DOMAIN processes
    /\ p \notin DOMAIN processes'
    /\ log_queue' # << >>
    /\ Last(log_queue') = Event("process_unregistered", p, None)

(* The waiters of r other than p, in arrival order, whose request fits in what
   is available once p's instances are back. *)
FittingWaiters(r, p) ==
    SelectSeq(resources[r].waiters,
              LAMBDA w : /\ w # p
                         /\ MapGet(resources[r].waiting_for, w, 1)
                               <= resources[r].available_instances
                                    + resources[r].allocations[p])

(* C11: unregister cascades.  When unregister_process(p) runs while p holds
   instances of r: if r has a waiter whose request fits the freed capacity, the
   first such waiter W ends up holding its requested instances, out of
   waiters(r) and with waiting_for None; if r has no waiter and no other
   holder, r ends with available = total and state free. *)
C11_UnregisterCascades ==
    [][\A p \in QueueProcs : \A r \in DOMAIN resources :
          (Unregistered(p) /\ p \in DOMAIN resources[r].allocations)
          => /\ FittingWaiters(r, p) # << >>
                  => LET W == Head(FittingWaiters(r, p))
                         n == MapGet(resources[r].waiting_for, W, 1)
                     IN /\ W \in DOMAIN resources'[r].allocations
                        /\ resources'[r].allocations[W] >= n
                        /\ ~Contains(resources'[r].waiters, W)
                        /\ W \in DOMAIN processes'
                        /\ processes'[W].waiting_for = None
             /\ (resources[r].waiters = << >> /\ DOMAIN resources[r].allocations = {p})
                  => /\ resources'[r].available_instances = resources'[r].total_instances
                     /\ resources'[r].state = "free"]_vars

(* C12: unregister leaves no trace.  After unregister_process(p) returns True,
   p is not registered, p is in no resource's allocations, waiters,
   waiter_timestamps or requested-amount map, and the instances p held are
   available or held by other processes. *)
C12_NoTrace ==
    [][\A p \in Procs :
          Unregistered(p)
          => \A r \in DOMAIN resources' :
                /\ p \notin DOMAIN resources'[r].allocations
                /\ ~Contains(resources'[r].waiters, p)
                /\ p \notin DOMAIN resources'[r].waiter_timestamps
                /\ p \notin DOMAIN resources'[r].waiting_for
                /\ resources'[r].available_instances + SumOf(resources'[r].allocations)
                      = resources[r].available_instances + SumOf(resources[r].allocations)]_vars

(* C13: derived resource state.  In every state, state is free iff
   available = total, fully_allocated iff available = 0, and
   partially_allocated otherwise. *)
C13_DerivedState ==
    \A r \in DOMAIN resources : resources[r].state = StateOf(resources[r])

(* The step changed neither the resource map, the process map nor the log. *)
NoOp ==
    /\ resources' = resources
    /\ processes' = processes
    /\ process_ids' = process_ids
    /\ log_queue' = log_queue

(* C14: idempotent registration.  register_resource (with a count >= 1) on a
   registered resource id and register_process on a registered process id
   return False and leave the resource map, the process map and the event log
   unchanged. *)
C14_IdempotentRegistration ==
    [][/\ (/\ ret'.call[1] = "register_resource"
           /\ ret'.call[2] \in DOMAIN resources
           /\ ret'.call[3] >= 1)
          => (ret'.val = "False" /\ NoOp)
       /\ (/\ ret'.call[1] = "register_process"
           /\ ret'.call[2] \in DOMAIN processes)
          => (ret'.val = "False" /\ NoOp)]_vars

(* A second register_resource, with another instance count, on a resource that
   has a holder and a waiter has just been turned down. *)
C14_Witness ==
    /\ Len(ret.call) = 3
    /\ ret.call[1] = "register_resource"
    /\ ret.val = "False"
    /\ ret.call[2] \in DOMAIN resources
    /\ resources[ret.call[2]].total_instances # ret.call[3]
    /\ resources[ret.call[2]].allocations # EmptyMap
    /\ resources[ret.call[2]].waiters # << >>

(* The call of this step names a process or a resource that is not registered;
   pi and ri are the positions of the two ids in the recorded call. *)
UnknownId(op, pi, ri) ==
    /\ ret'.call[1] = op
    /\ \/ ret'.call[pi] \notin DOMAIN processes
       \/ ret'.call[ri] \notin DOMAIN resources

(* C15: rejected operations are no-ops.  request_resource (count >= 1),
   release_resource, unregister_process, set_resource_owner and
   add_waiting_process return False, without raising, when a process or
   resource id they name is unknown, and release_resource returns False when
   the process holds no instance of the resource; the resource map and the
   process map are unchanged in each case. *)
C15_RejectedNoOps ==
    [][/\ (UnknownId("request_resource", 2, 3) /\ ret'.call[4] >= 1)
          => (ret'.val = "False" /\ NoOp)
       /\ UnknownId("release_resource", 2, 3) => (ret'.val = "False" /\ NoOp)
       /\ (/\ ret'.call[1] = "release_resource"
           /\ ret'.call[2] \in DOMAIN processes
           /\ ret'.call[3] \in DOMAIN resources
           /\ MapGet(resources[ret'.call[3]].allocations, ret'.call[2], 0) = 0)
          => (ret'.val = "False" /\ NoOp)
       /\ (ret'.call[1] = "unregister_process" /\ ret'.call[2] \notin DOMAIN processes)
          => (ret'.val = "False" /\ NoOp)
       /\ UnknownId("set_resource_owner", 3, 2) => (ret'.val = "False" /\ NoOp)
       /\ UnknownId("add_waiting_process", 3, 2) => (ret'.val = "False" /\ NoOp)]_vars

(* add_waiting_process has just been turned down for a registered process
   because the resource it named is unknown. *)
C15_Witness ==
    /\ Len(ret.call) = 3
    /\ ret.call[1] = "add_waiting_process"
    /\ ret.val = "False"
    /\ ret.call[3] \in DOMAIN processes
    /\ ret.call[2] \notin DOMAIN resources
    /\ processes[ret.call[3]].waiting_for = None

(* C16: invalid instance counts.  register_resource, request_resource,
   release_resource and set_resource_owner called with a count <= 0 raise an
   argument error and change no state. *)
C16_InvalidCounts ==
    [][/\ (ret'.call[1] = "register_resource" /\ ret'.call[3] <= 0)
          => (ret'.val = "ValueError" /\ NoOp)
       /\ (ret'.call[1] = "request_resource" /\ ret'.call[4] <= 0)
          => (ret'.val = "ValueError" /\ NoOp)
       /\ (/\ ret'.call[1] = "release_resource"
           /\ ret'.call[4] # << >>
           /\ ret'.call[4][1] <= 0)
          => (ret'.val = "ValueError" /\ NoOp)
       /\ (ret'.call[1] = "set_resource_owner" /\ ret'.call[4] <= 0)
          => (ret'.val = "ValueError" /\ NoOp)]_vars

(* The waiters of r that this step took out of waiters(r) and gave instances
   of r.  (A process removed by the step counts: unregister_process can promote
   the process it removes.) *)
PromotedIn(r) ==
    {w \in QueueProcs :
        /\ Contains(resources[r].waiters, w)
        /\ ~Contains(resources'[r].waiters, w)
        /\ w \in DOMAIN resources'[r].allocations}

(* C17: at most one promotion.  A release_resource call, and each resource
   force-released by an unregister_process call, promotes at most one waiter,
   even when the capacity left would satisfy another one. *)
C17_OnePromotion ==
    [][\A r \in DOMAIN resources :
          r \in DOMAIN resources' => Cardinality(PromotedIn(r)) <= 1]_vars

(* A waiter has just been promoted by a release and the instances left over
   would satisfy the waiter now first in the queue, which still waits. *)
C17_Witness ==
    \E r \in DOMAIN resources : \E w \in DOMAIN processes :
        /\ log_queue # << >>
        /\ IsEvent(Last(log_queue), "resource_acquired_after_wait", w, r)
        /\ resources[r].waiters # << >>
        /\ Head(resources[r].waiters) # w
        /\ Head(resources[r].waiters) \in DOMAIN resources[r].waiting_for
        /\ Head(resources[r].waiters) \in DOMAIN processes
        /\ processes[Head(resources[r].waiters)].waiting_for = r
        /\ resources[r].waiting_for[Head(resources[r].waiters)]
              <= resources[r].available_instances

(* C18: request outcome.  For registered ids, a process that is not waiting and
   n >= 1, request_resource returns True iff available_instances(r) >= n.  On
   True availability drops by n, the caller's allocation grows by n and r is in
   its owns.  On False the caller is appended to waiters(r), n is recorded as
   its requested amount, its waiting_for is r, and availability and the
   allocations are unchanged.  The call returns in the same step either way. *)
C18_RequestOutcome ==
    [][\A p \in ShareProcs : \A r \in ShareRes : \A n \in Counts :
          (/\ ret'.call[1] = "request_resource"
           /\ ret'.call[2] = p
           /\ ret'.call[3] = r
           /\ ret'.call[4] = n
           /\ p \in DOMAIN processes
           /\ r \in DOMAIN resources
           /\ processes[p].waiting_for = None)
          => LET old == resources[r]
                 new == resources'[r]
             IN /\ ret'.val = (IF old.available_instances >= n THEN "True" ELSE "False")
                /\ old.available_instances >= n
                      => /\ new.available_instances = old.available_instances - n
                         /\ p \in DOMAIN new.allocations
                         /\ new.allocations[p] =
                               (IF p \in DOMAIN old.allocations
                                THEN old.allocations[p] ELSE 0) + n
                         /\ Contains(processes'[p].owns, r)
                         /\ processes'[p].waiting_for = None
                /\ old.available_instances < n
                      => /\ new.waiters = Append(old.waiters, p)
                         /\ p \in DOMAIN new.waiting_for
                         /\ new.waiting_for[p] = n
                         /\ processes'[p].waiting_for = r
                         /\ new.available_instances = old.available_instances
                         /\ new.allocations = old.allocations]_vars

(* A request has just been queued behind another waiter. *)
C18_Witness ==
    /\ Len(ret.call) = 4
    /\ ret.call[1] = "request_resource"
    /\ ret.val = "False"
    /\ ret.call[3] \in DOMAIN resources
    /\ Len(resources[ret.call[3]].waiters) = 2
    /\ resources[ret.call[3]].waiters[2] = ret.call[2]
    /\ ret.call[2] \in DOMAIN resources[ret.call[3]].waiting_for
    /\ resources[ret.call[3]].waiting_for[ret.call[2]] = ret.call[4]
    /\ ret.call[2] \in DOMAIN processes
    /\ processes[ret.call[2]].waiting_for = ret.call[3]

(* C19: the monitor reports deadlocks.  While monitoring is running, every
   scan by a monitor thread (the thread leaves its sleep) of a state whose
   wait-for graph has a cycle appends deadlock_detected events, so that the
   log ends with one. *)
C19_MonitorReports ==
    [][\A t \in 1..Len(_monitor_threads) :
          (/\ _running
           /\ _running'
           /\ _monitor_threads[t] = "sleep"
           /\ _monitor_threads'[t] # "sleep"
           /\ RealCycles # {})
          => /\ log_queue' # << >>
             /\ Last(log_queue').action = "deadlock_detected"]_vars

(* C20: single monitor task.  After any sequence of start_monitoring and
   stop_monitoring calls at most one monitor thread is alive. *)
C20_SingleMonitor ==
    Cardinality({t \in 1..Len(_monitor_threads) : Alive(_monitor_threads[t])}) <= 1

(* Waits created by request_resource and by add_waiting_process, over two
   resources. *)
NextWaiters ==
    \/ Registering(ShareProcs, Res \X {1})
    \/ Requesting(ShareProcs, Res, {1})
    \/ Releasing(ShareProcs, Res, {1})
    \/ \E p \in ShareProcs, r \in Res : add_waiting_process(r, p)
    \/ clear_all

SpecWaiters == Init /\ [][NextWaiters]_vars

(* Registration and removal of resources, calls recorded. *)
NextResourceCalls ==
    \/ Registering(ShareProcs, ShareRes \X {1})
    \/ Requesting(ShareProcs, ShareRes, {1})
    \/ Releasing(ShareProcs, ShareRes, {1})
    \/ \E r \in ShareRes : unregister_resource(r)

SpecResourceCalls == InitCalls /\ [][NextResourceCalls]_vars

(* Requests and releases on one shared resource while the clock moves. *)
NextClock ==
    \/ Registering(ShareProcs, ShareRes \X {1})
    \/ Requesting(ShareProcs, ShareRes, {1})
    \/ Releasing(ShareProcs, ShareRes, {1})
    \/ tick

SpecClock == Init /\ [][NextClock]_vars

(* The event log under producers that take _log_event in steps. *)
InitLog == InitSized(<< >>, LogRaceMaxSize)

Logging(T, M) ==
    \/ \E t \in T, message \in M : add_log_entry(t, message)
    \/ \E t \in T : log_put(t)
    \/ \E t \in T : log_evict(t)
    \/ \E t \in T : log_retry(t)

(* One producer. *)
NextLogSolo == Logging(SoleCaller, Messages)

SpecLogSolo == InitLog /\ [][NextLogSolo]_vars

(* Two producers, one of which also calls clear_all. *)
NextLog ==
    \/ Logging(Callers, RaceMessages)
    \/ \E p \in SoleProc : (_lock = None /\ register_process(p))
    \/ \E t \in SoleCaller : clear_all_resources(t)
    \/ \E t \in SoleCaller : clear_all_processes(t)

SpecLog == InitLog /\ [][NextLog]_vars

(* Caller threads and the monitor around the lock: clear_all and
   detect_deadlocks in steps, the other operations in one step each, taken
   when the lock is free. *)
NextLock ==
    \/ (_lock = None /\ Registering(SoleProc, ShareRes \X {1}))
    \/ \E t \in SoleCaller : clear_all_resources(t)
    \/ \E t \in SoleCaller : clear_all_processes(t)
    \/ \E t \in SoleCaller : log_put(t)
    \/ \E t \in SoleCaller : log_evict(t)
    \/ \E t \in SoleCaller : log_retry(t)
    \/ \E t \in Callers : get_resource_status(t)
    \/ \E t \in Callers : get_process_status(t)
    \/ \E t \in Callers : detect_deadlocks_resources(t)
    \/ \E t \in Callers : detect_deadlocks_processes(t)
    \/ start_monitoring
    \/ \E t \in 1..Len(_monitor_threads) : monitor_check(t)
    \/ \E t \in 1..Len(_monitor_threads) : (_lock = None /\ monitor_scan(t))

SpecLock == Init /\ [][NextLock]_vars

NoMonitorAlive ==
    \A t \in 1..Len(_monitor_threads) : ~Alive(_monitor_threads[t])

(* C21: monitor stop.  stop_monitoring on a monitor that is not running changes
   neither the state nor the log.  Once the flag is cleared, a thread that
   tests it begins no new scan, a terminated thread stays terminated, a thread
   other than the joined one is not interrupted by the stop, and, unless
   monitoring is started again, every monitor thread eventually terminates. *)
C21_MonitorStop ==
    /\ [][/\ (~_running /\ ret' # ret /\ ret'.call[1] = "stop_monitoring")
              => (NoOp /\ UNCHANGED <<_running, _monitor_threads, _lock, callers, maxsize>>)
           /\ \A t \in 1..Len(_monitor_threads) :
                 /\ (/\ _monitor_threads[t] = "check"
                     /\ ~_running
                     /\ _monitor_threads'[t] # "check")
                       => _monitor_threads'[t] = "exited"
                 /\ ~Alive(_monitor_threads[t])
                       => _monitor_threads'[t] = _monitor_threads[t]
                 /\ (_running /\ ~_running' /\ t < Len(_monitor_threads))
                       => _monitor_threads'[t] = _monitor_threads[t]]_vars
    /\ [](~_running => <>(_running \/ NoMonitorAlive))

(* The monitor was stopped while a thread started earlier was inside its loop
   body, and that thread has since left the loop. *)
C21_Witness ==
    /\ ~_running
    /\ ret.call = <<"stop_monitoring">>
    /\ Len(_monitor_threads) = 2
    /\ _monitor_threads[1] = "exited"
    /\ ~Alive(_monitor_threads[2])

LastN(q, n) == IF Len(q) <= n THEN q ELSE SubSeq(q, Len(q) - n + 1, Len(q))

(* The step is the one in which the _log_event of caller t returns. *)
Enqueued(t) ==
    /\ callers[t].pc \in {"put", "evict", "retry"}
    /\ callers'[t].pc = "idle"

(* C22: log bounding.  The log never holds more than maxsize entries, an
   enqueue returns normally, and, with one producer and nobody draining, the
   log after an enqueue is the log before it with the event appended, cut to
   its most recent maxsize entries (drop-oldest); so after k enqueues it holds
   the most recent min(k, maxsize) events in enqueue order. *)
C22_LogBounding ==
    [][/\ Len(log_queue') <= maxsize
       /\ \A t \in SoleCaller :
             Enqueued(t) =>
                /\ ret'.val = "None"
                /\ log_queue' = LastN(Append(callers[t].before, callers[t].event),
                                      maxsize)]_vars

(* An enqueue into a full log of two different events has returned. *)
C22_Witness ==
    /\ callers["t1"].pc = "idle"
    /\ Len(callers["t1"].before) = maxsize
    /\ callers["t1"].before[1] # callers["t1"].before[2]
    /\ callers["t1"].event # callers["t1"].before[2]
    /\ log_queue = <<callers["t1"].before[2], callers["t1"].event>>

(* C23: log race-safety for producers.  Every enqueue, also one that found the
   log full while another producer was enqueueing, ends with its own event in
   the log. *)
C23_ProducerRace ==
    [][\A t \in Callers :
          Enqueued(t) => Contains(log_queue', callers[t].event)]_vars

(* C24: the low-level mutators preserve the invariants.  A set_resource_owner
   or add_waiting_process call made in a state with instance conservation, the
   owns/allocations mirror and the wait mirror leaves a state with all three. *)
C24_MutatorsPreserve ==
    [][(/\ C1_Conservation /\ C2_OwnershipMirror /\ C3_WaitMirror
        /\ ret'.call[1] \in {"set_resource_owner", "add_waiting_process"})
       => (C1_Conservation /\ C2_OwnershipMirror /\ C3_WaitMirror)']_vars

(* C25: a process waits on at most one resource.  In every state each process
   is in the waiters of at most one resource, and that resource is its
   waiting_for. *)
C25_OneWaitPerProcess ==
    \A p \in Ids : \A r \in DOMAIN resources :
        Contains(resources[r].waiters, p) =>
            /\ p \in DOMAIN processes
            /\ processes[p].waiting_for = r
            /\ \A q \in DOMAIN resources :
                  Contains(resources[q].waiters, p) => q = r

(* Caller t is inside a `with self._lock` block of a call taken in steps. *)
InSection(t) ==
    \/ callers[t].pc \in {"clear_processes", "detect_processes"}
    \/ callers[t].op = "clear_all" /\ callers[t].pc \in {"put", "evict", "retry"}

(* C26: atomic tracker operations.  The lock is held exactly by the caller that
   is inside a critical section; a step that writes one of the two maps is a
   step of that caller, or is taken while nobody is inside one; a step in which
   a caller or the monitor reads the maps is taken while no other caller is
   inside one; and what detect_deadlocks has read of the two maps when it
   returns is the pair of maps of a state in which no operation is
   half-applied. *)
C26_AtomicOperations ==
    [][/\ \A t \in Callers : InSection(t)' <=> (_lock' = t)
       /\ (resources' # resources \/ processes' # processes) =>
             \A u \in Callers : InSection(u) => callers'[u] # callers[u]
       /\ \A t \in Callers :
             (\/ callers'[t].resources # callers[t].resources
              \/ callers'[t].processes # callers[t].processes) =>
                \A u \in Callers \ {t} : ~InSection(u)
       /\ (\E i \in 1..Len(_monitor_threads) :
               _monitor_threads[i] = "sleep" /\ _monitor_threads'[i] # "sleep") =>
             \A u \in Callers : ~InSection(u)
       /\ \A t \in Callers :
             (/\ callers[t].pc = "detect_processes"
              /\ callers'[t].pc = "idle") =>
                /\ callers'[t].resources = resources'
                /\ callers'[t].processes = processes'
                /\ \A u \in Callers : ~InSection(u)']_vars

(* clear_all has emptied the resource map and not yet the process map, after
   another caller's detect_deadlocks read both maps with their entries. *)
C26_Witness ==
    /\ callers["t1"].pc = "clear_processes"
    /\ resources = EmptyMap
    /\ processes # EmptyMap
    /\ callers["t2"].op = "detect_deadlocks"
    /\ callers["t2"].pc = "idle"
    /\ callers["t2"].resources # EmptyMap
    /\ callers["t2"].processes = processes

(* C27: detection is pure.  A detect_deadlocks call leaves the resource map,
   the process map and the event log as they were. *)
C27_DetectionIsPure ==
    [][ret'.val = "list" => NoOp]_vars

(* A detection has just reported a cycle, in a state with a log. *)
C27_Witness ==
    /\ ret.val = "list"
    /\ ret.deadlocks # << >>
    /\ log_queue # << >>
    /\ resources # EmptyMap

(* C28: resource unregistration.  An unregister_resource call on a registered
   resource removes it and releases all of its allocations: afterwards it is
   not registered and no process has it in owns or as waiting_for. *)
C28_UnregisterResource ==
    [][(/\ ret'.call[1] = "unregister_resource"
        /\ ret' # ret
        /\ ret'.call[2] \in DOMAIN resources)
       => /\ ret'.call[2] \notin DOMAIN resources'
          /\ \A p \in DOMAIN processes' :
                /\ ~Contains(processes'[p].owns, ret'.call[2])
                /\ processes'[p].waiting_for # ret'.call[2]]_vars

(* C29: clear_all.  When clear_all returns, no resource and no process is
   registered, a detection finds nothing, and the log holds a system_cleared
   event. *)
C29_ClearAll ==
    [][\A t \in Callers :
          (callers[t].op = "clear_all" /\ Enqueued(t)) =>
             /\ resources' = EmptyMap
             /\ processes' = EmptyMap
             /\ \A has_networkx \in BOOLEAN :
                   _detect_deadlocks_from_snapshot(
                       resources', processes', process_ids', has_networkx) = << >>
             /\ Contains(log_queue', Event("system_cleared", None, None))]_vars

(* C30: total_instances is immutable.  No step changes the total_instances of
   a resource that is registered before and after it. *)
C30_TotalImmutable ==
    [][\A r \in DOMAIN resources :
          r \in DOMAIN resources' =>
             resources'[r].total_instances = resources[r].total_instances]_vars

(* A release has just promoted a waiter on a resource of MaxInstances
   instances, part of which another process holds. *)
C30_Witness ==
    \E r \in DOMAIN resources :
        /\ resources[r].total_instances = MaxInstances
        /\ Cardinality(DOMAIN resources[r].allocations) = 2
        /\ log_queue # << >>
        /\ Last(log_queue).action = "resource_acquired_after_wait"
        /\ ret.call[1] = "release_resource"

(* C31: promotion adds to existing holdings.  A waiter that already holds k
   instances of r and is promoted by another process's release for its
   requested amount n holds k + n instances afterwards. *)
C31_PromotionAdds ==
    [][\A r \in ShareRes : \A w \in ShareProcs :
          (/\ PromotedByRelease(w, r)
           /\ ret'.call[2] # w
           /\ w \in DOMAIN resources[r].allocations
           /\ w \in DOMAIN resources[r].waiting_for)
          => resources'[r].allocations[w]
                = resources[r].allocations[w] + resources[r].waiting_for[w]]_vars

(* C32: release amount.  release_resource(p, r, n) by a process holding k >= 1
   instances of r (an allocation of k, and r in its owns) returns True and releases min(n, k) instances, all k when n
   is omitted: availability grows by that amount (less what the promotion of
   the same call grants), and, unless the call promotes p itself, p's
   allocation is k minus that amount, its allocations entry and r in its owns
   being removed exactly when nothing remains. *)
C32_ReleaseAmount ==
    [][\A p \in ShareProcs : \A r \in ShareRes : \A n \in Optional(Counts) :
          (/\ ret'.call = <<"release_resource", p, r, n>>
           /\ p \in DOMAIN processes
           /\ r \in DOMAIN resources
           /\ p \in DOMAIN resources[r].allocations
           /\ Contains(processes[p].owns, r))
          => LET k == resources[r].allocations[p]
                 amount == IF n = << >> THEN k ELSE IF n[1] < k THEN n[1] ELSE k
                 granted == IF PromotedIn(r) = {} THEN 0
                            ELSE resources[r].waiting_for[CHOOSE w \in PromotedIn(r) : TRUE]
             IN /\ ret'.val = "True"
                /\ resources'[r].available_instances
                      = resources[r].available_instances + amount - granted
                /\ p \notin PromotedIn(r) =>
                      IF k = amount
                      THEN /\ p \notin DOMAIN resources'[r].allocations
                           /\ ~Contains(processes'[p].owns, r)
                      ELSE /\ resources'[r].allocations[p] = k - amount
                           /\ Contains(processes'[p].owns, r)]_vars

(* A process holding MaxInstances instances has just given back one of them
   and keeps the rest. *)
C32_Witness ==
    \E p \in DOMAIN processes : \E r \in DOMAIN resources :
        /\ ret.call = <<"release_resource", p, r, <<1>>>>
        /\ ret.val = "True"
        /\ p \in DOMAIN resources[r].allocations
        /\ resources[r].allocations[p] = MaxInstances - 1
        /\ resources[r].available_instances = 1
        /\ Contains(processes[p].owns, r)

(* C33: wait-for edges.  The graph built from the tracker state has an edge
   p -> q exactly when p waits for a resource r, q is another process and q
   holds at least one instance of r (an allocation of 1 or more, and r in its
   owns); no process has an edge to itself and no
   edge is listed twice. *)
C33_WaitForEdges ==
    LET wait_for == WaitForGraph(processes, process_ids)
    IN \A p \in DOMAIN processes :
          /\ \A q \in DOMAIN processes :
                Contains(wait_for[p], q)
                <=> /\ processes[p].waiting_for \in DOMAIN resources
                    /\ q # p
                    /\ q \in DOMAIN resources[processes[p].waiting_for].allocations
                    /\ resources[processes[p].waiting_for].allocations[q] >= 1
                    /\ Contains(processes[q].owns, processes[p].waiting_for)
          /\ ~Contains(wait_for[p], p)
          /\ \A i, j \in 1..Len(wait_for[p]) :
                i # j => wait_for[p][i] # wait_for[p][j]

(* A process waits for a resource that two other processes hold, and so has
   two outgoing edges, while another waits for more of a resource of which it
   holds an instance itself. *)
C33_Witness ==
    \E p, q \in DOMAIN processes :
        /\ processes[p].waiting_for \in DOMAIN resources
        /\ Len(WaitForGraph(processes, process_ids)[p]) = 2
        /\ processes[q].waiting_for \in DOMAIN resources
        /\ Contains(processes[q].owns, processes[q].waiting_for)

(* C34: reported wait time.  The wait_time of a resource_acquired_after_wait
   event is the time between the moment the promoted process was queued (its
   waiter timestamp) and the promotion, and so is positive when the clock
   moved in between. *)
C34_WaitTime ==
    [][\A r \in ShareRes : \A w \in ShareProcs :
          PromotedByRelease(w, r) =>
             Last(log_queue').wait_time = now' - resources[r].waiter_timestamps[w]]_vars

(* C35: no overtaking of queued waiters.  request_resource grants instances
   of r to the caller only when no process queued on r before it asks for an
   amount that the instances available at the call would satisfy. *)
C35_NoOvertaking ==
    [][\A r \in QueueRes : \A p \in QueueProcs :
          (/\ r \in DOMAIN resources
           /\ r \in DOMAIN resources'
           /\ log_queue' # << >>
           /\ IsEvent(Last(log_queue'), "resource_acquired", p, r)
           /\ resources'[r].available_instances < resources[r].available_instances)
          => ~ \E i \in 1..Len(resources[r].waiters) :
                 LET w == resources[r].waiters[i]
                 IN /\ w # p
                    /\ w \in DOMAIN processes
                    /\ processes[w].waiting_for = r
                    /\ w \in DOMAIN resources[r].waiting_for
                    /\ resources[r].waiting_for[w] <= resources[r].available_instances]_vars

(* C36: no waiter is stranded on a free resource.  A resource all of whose
   instances are available has no queued waiter whose requested amount is at
   most total_instances. *)
C36_NoStrandedWaiter ==
    \A r \in DOMAIN resources :
        resources[r].available_instances = resources[r].total_instances
        => ~ \E i \in 1..Len(resources[r].waiters) :
               LET w == resources[r].waiters[i]
               IN /\ w \in DOMAIN resources[r].waiting_for
                  /\ resources[r].waiting_for[w] <= resources[r].total_instances

(* A release has left a resource without holder, and the waiters still queued
   on it all ask for more than the resource has. *)
C36_Witness ==
    \E r \in DOMAIN resources :
        /\ resources[r].available_instances = resources[r].total_instances
        /\ resources[r].waiters # << >>
        /\ log_queue # << >>
        /\ Last(log_queue).action = "resource_released"
        /\ Last(log_queue).resource_id = r
        /\ \A i \in 1..Len(resources[r].waiters) :
              /\ resources[r].waiters[i] \in DOMAIN resources[r].waiting_for
              /\ resources[r].waiting_for[resources[r].waiters[i]]
                    > resources[r].total_instances

(* simulate_deadlock with up to MaxSim processes and resources, called by two
   threads that also register the same ids directly and query the process
   status. *)
NextSimulate ==
    \/ \E t \in Callers : \E num_processes \in 0..MaxSim, num_resources \in 0..MaxSim :
          simulate_deadlock(t, num_processes, num_resources)
    \/ \E t \in Callers : \E i \in 1..(MaxSim + 1) :
          call_register_process(t, SimProcessIds[i])
    \/ \E t \in Callers : \E i \in 1..(MaxSim + 1) :
          call_register_resource(t, SimResourceIds[i])
    \/ \E t \in Callers : simulate_started(t)
    \/ \E t \in Callers : _simulate(t)
    \/ \E t \in Callers : get_process_status(t)

SpecSimulate == Init /\ [][NextSimulate]_vars

(* C37: simulate_deadlock completes its setup.  A thread inside the setup of
   simulate_deadlock that has still an id to register is never holding the
   tracker lock that the register call it makes next has to take: the call
   does not block on the lock for ever, and the lock becomes free again for
   the other tracker operations. *)
C37_SimulateCompletes ==
    \A t \in Callers :
        ~ (/\ (InProcessLoop(t) \/ InResourceLoop(t))
           /\ _lock = t)

(* One producer and two readers of a log of maxsize LogMaxSize. *)
NextDrain ==
    \/ Logging(SoleCaller, RaceMessages)
    \/ \E t \in Callers : get_logs(t)
    \/ \E t \in Callers : get_logs_empty(t)
    \/ \E t \in Callers : get_logs_get(t)

SpecDrain == Init /\ [][NextDrain]_vars

(* C38: draining the log always returns.  A get_logs call never waits for an
   event: whenever a reader is at its removal, the queue holds an entry for
   it to take, also when another reader drains or a producer evicts between
   the reader's emptiness test and its removal. *)
C38_DrainReturns ==
    \A t \in Callers : callers[t].pc = "get" => log_queue # << >>

(* The monitor's loop body in steps beside a caller that registers and calls
   clear_all. *)
NextScan ==
    \/ (_lock = None /\ Registering(SoleProc, ShareRes \X {1}))
    \/ \E t \in SoleCaller : clear_all_resources(t)
    \/ \E t \in SoleCaller : clear_all_processes(t)
    \/ \E t \in SoleCaller : log_put(t)
    \/ \E t \in SoleCaller : log_evict(t)
    \/ \E t \in SoleCaller : log_retry(t)
    \/ \E t \in Callers : get_process_status(t)
    \/ start_monitoring
    \/ \E t \in 1..Len(_monitor_threads) : monitor_check(t)
    \/ \E t \in 1..Len(_monitor_threads) : monitor_enter(t)
    \/ \E t \in 1..Len(_monitor_threads) : monitor_exit(t)
    \/ \E t \in 1..Len(_monitor_threads) : monitor_detect(t)

SpecScan == Init /\ [][NextScan]_vars

(* C39: detection never blocks allocation.  A monitor thread holds the
   tracker lock only inside its two blocks, while it copies the snapshot and
   while it appends deadlock_detected events; a monitor thread that runs the
   cycle detection does not hold the lock, so that the lock is free for a
   caller or held by another thread inside a block of its own. *)
C39_DetectionOutsideLock ==
    \A t \in 1..Len(_monitor_threads) :
        /\ _lock = MonitorIds[t] => _monitor_threads[t] \in {"copy", "append"}
        /\ _monitor_threads[t] = "detect" => _lock # MonitorIds[t]

(* A caller has taken the lock for clear_all while a monitor thread is in its
   cycle detection. *)
C39_Witness ==
    /\ _monitor_threads # << >>
    /\ _monitor_threads[1] = "detect"
    /\ _lock = "t1"
    /\ callers["t1"].op = "clear_all"
====
